---- MODULE Spec2Model ----
(***************************************************************************)
(* Kairoscope: capture / sign / export commands over an append-only event  *)
(* ledger, and the policy evaluator (existential, universal and threshold  *)
(* rules) that gates export.                                               *)
(*                                                                         *)
(* The ledger is the rows of the events table in insertion (rowid) order.  *)
(* The policy evaluator reads it through get_all_events and only counts    *)
(* rows, so the timestamp column never enters a decision and is left out   *)
(* of the event records.  A signature is written as the encoding of its   *)
(* bytes, the signing key, the signed data and the nonce that ECDSA drew:  *)
(* verification succeeds exactly for a DER signature, the public half of   *)
(* the signing key and the signed data.  The signatures stored in the      *)
(* ledger are hex-decodable in every specification but SpecHex, whose      *)
(* attestors also store a string that bytes.fromhex rejects.               *)
(*                                                                         *)
(* The events table keeps its rows in insertion (rowid) order and          *)
(* get_all_events returns them ordered by the timestamp column.  A         *)
(* timestamp is the fixed-width ISO string of cli._get_timestamp, written  *)
(* as the number of the instant it names.  In Spec and SpecPolicy the      *)
(* clock stands still (the tests patch _get_timestamp to one value); in    *)
(* SpecLedger it moves, backwards too.                                     *)
(*                                                                         *)
(* The key managers of key_manager.py and tpm_key_manager.py are a         *)
(* component of their own: the commands of cli.py sign through             *)
(* provenance.py and never touch them.  SpecKeys is the state machine of   *)
(* the life cycle of their keys; SpecSign adds the signing and verifying   *)
(* calls of the two backends and of provenance.py, SpecFileSign and        *)
(* SpecTpm are its halves for the file backend and the hardware backend.   *)
(*                                                                         *)
(* SpecFaults has the runs of capture that a storage fault ends between    *)
(* the write of the file and the commit of its record.  SpecConcurrent is  *)
(* a call of can_export, one step for each rule it evaluates (each rule    *)
(* reads the events table itself), with other processes that append.       *)
(***************************************************************************)
EXTENDS Naturals, Sequences, FiniteSets, TLC

VARIABLES
    events,         \* rows of the events table (db.py), in insertion order
    artifacts,      \* rows of the artifacts table (db.py), in insertion order
    artifact_files, \* names of the files in the artifacts/ directory
    policy_file,    \* parsed content of policy.yaml, or NoFile
    keypair,        \* key in kairoscope.key / kairoscope.pub, or NoKey
    dist,           \* files of the dist/ directory written by export
    last,           \* command that ran last and how it ended: ok, already, abort, error
    clock,          \* the instant cli._get_timestamp returns
    key_dir,        \* FileKeyBackend: kairoscope.key and kairoscope.pub in key_dir
    instances,      \* FileKeyBackend: _private_key and _key_id of each instance
    generated,      \* number of keys the generators have produced so far
    tpm,            \* TpmKeyBackend: the module's persistent and transient objects
    ret,            \* key manager: the call that ran last and what it returned
    call,           \* key manager: the arguments of that call
    evaluation      \* a running call of can_export: its position and what it read

cli_vars == <<events, artifacts, artifact_files, policy_file, keypair, dist, last, clock>>

key_vars == <<key_dir, instances, generated, tpm, ret, call>>

vars == <<events, artifacts, artifact_files, policy_file, keypair, dist, last,
          clock, key_dir, instances, generated, tpm, ret, call, evaluation>>

---------------------------------------------------------------------------
(* Bounds of the model *)

\* sign events appended through insert_event by attestors
MaxInserted == 2
\* export commands that get as far as the policy decision
MaxExports == 1
\* events other processes append while can_export calls run
MaxAppended == 3
\* instants the clock can show
MaxClock == 2
\* keys the generators (file backend and hardware module) can produce
MaxGenerated == 2
\* transient objects the hardware module has room for
MaxTransient == 3

---------------------------------------------------------------------------
(* Values *)

Hashes == {"H1", "H2"}

NoKey == "NoKey"
\* a file that does not exist
NoFile == [exists |-> FALSE]
None == "None"

\* the key ec.generate_private_key yields on this machine, and the key of a
\* second attestor that lives elsewhere
LocalKey == "K1"
ForeignKey == "K2"
Keys == {LocalKey, ForeignKey}

\* the n-th key ec.generate_private_key (or the hardware module) produces
generated_key(n) == "G" \o ToString(n)

GeneratedKeys == {generated_key(n) : n \in 1..MaxGenerated}

\* the keys on curve P-384
EllipticCurveKeys == Keys \cup GeneratedKeys

\* provenance.py get_public_key_fingerprint: "sha256:" + hex(SHA256(DER(pub)))
fingerprint_of(public_key) == "sha256:" \o public_key

Fingerprints == {fingerprint_of(k) : k \in Keys}

\* cli.py capture: uuid5(NAMESPACE_URL, content_hash)
uuid5(content_hash) == "uuid5:" \o content_hash

\* dict.get(key, default)
Get(d, key, default) == IF key \in DOMAIN d THEN d[key] ELSE default

\* truthiness of d.get(key): the key is present (a null or empty value is
\* written as an absent key)
Truthy(d, key) == key \in DOMAIN d

\* x in list
InList(x, list) == \E i \in DOMAIN list : list[i] = x

---------------------------------------------------------------------------
(* provenance.py *)

TypeError == [error |-> "TypeError"]

\* EllipticCurvePrivateKey.sign(data, ECDSA(SHA256)): the DER encoding of the
\* pair (r, s) that the key yields over data with the random nonce k
ecdsa_sign(private_key, data, k) ==
    [enc |-> "der", signer |-> private_key, msg |-> data, k |-> k]

\* verification that takes any signature made by the key, whatever it was
\* made over
ecdsa_verify_any_message(public_key, signature, data) ==
    /\ signature.enc = "der"
    /\ signature.signer = public_key

\* EllipticCurvePublicKey.verify(signature, data, ECDSA(SHA256)): TRUE where
\* the library returns, FALSE where it raises (InvalidSignature, or ValueError
\* on bytes that are no DER pair)
ecdsa_verify(public_key, signature, data) ==
    /\ signature.enc = "der"
    /\ signature.signer = public_key
    /\ signature.msg = data

\* sign_bytes(data, private_key): ECDSA over SHA-256 with an EC private key; k
\* is the nonce the library draws
sign_bytes(data, private_key, k) ==
    IF private_key \in EllipticCurveKeys
    THEN ecdsa_sign(private_key, data, k)
    ELSE TypeError

\* a signature that no key produced ("00" * 64 in the tests)
DummySignature == [enc |-> "bytes", signer |-> "nobody", msg |-> "nothing", k |-> 0]

Signatures == {sign_bytes(d, k, 1) : d \in Hashes, k \in Keys} \cup {DummySignature}

\* a string that is no hex: a digit outside 0-9a-f, or an odd number of digits
MalformedHex == [enc |-> "nothex", signer |-> "nobody", msg |-> "nothing", k |-> 0]

\* bytes.fromhex(signature_hex) raises ValueError
fromhex_raises(signature_hex) == signature_hex.enc = "nothex"

\* verify_signature(signature, data, public_key): False on any failure
verify_signature(signature, data, public_key) ==
    /\ public_key \in EllipticCurveKeys
    /\ ecdsa_verify(public_key, signature, data)

\* get_keypair: load kairoscope.key, or generate and store a new key
get_keypair(kp) == IF kp # NoKey THEN kp ELSE LocalKey

\* get_public_key(): load kairoscope.pub, or fall back to get_keypair
get_public_key(kp) == IF kp # NoKey THEN kp ELSE get_keypair(kp)

get_public_key_fingerprint(kp) == fingerprint_of(get_public_key(kp))

\* the keys of JSON objects, in the order sort_keys puts them
SortedKeys == <<"alg", "hash", "key_backend_type", "key_id", "signature", "signer">>

\* json.dumps without sort_keys: the members in the order of insertion
json_dumps_insertion_order(items) == items

\* the members of items from the n-th sorted key on, in the order of the keys
RECURSIVE members_from(_, _)
members_from(items, n) ==
    IF n > Len(SortedKeys)
    THEN <<>>
    ELSE SelectSeq(items, LAMBDA item : item[1] = SortedKeys[n])
         \o members_from(items, n + 1)

\* json.dumps(d, sort_keys=True, separators=(",", ":")) of a dict whose items,
\* in the order of insertion, are <<key, value>> pairs: the text, member by
\* member
json_dumps(items) == members_from(items, 1)

\* json.loads of such a text: the dict, as a function on its keys
json_loads(text) ==
    [key \in {text[n][1] : n \in DOMAIN text} |->
        text[CHOOSE n \in DOMAIN text : text[n][1] = key][2]]

\* the dict create_assertion builds, in the order of its literal
assertion_items(artifact_hash, signature_hex, kp) ==
    << <<"alg", IF get_keypair(kp) \in EllipticCurveKeys THEN "ES384" ELSE "PS256">>,
       <<"hash", artifact_hash>>,
       <<"signature", signature_hex>>,
       <<"signer", get_public_key_fingerprint(get_keypair(kp))>> >>

\* create_assertion: compact JSON with sorted keys
create_assertion(artifact_hash, signature_hex, kp) ==
    json_dumps(assertion_items(artifact_hash, signature_hex, kp))

---------------------------------------------------------------------------
(* db.py *)

\* fetchone() found no row
NoRow == [hash |-> None]

\* ORDER BY timestamp ASC, one row at a time: the row goes behind the rows
\* placed so far whose timestamp is not larger (the sorter keeps rows with
\* equal timestamps in the order of the rowid scan that feeds it)
\* the row goes in front of the rows with its own timestamp
RECURSIVE place_row_before_ties(_, _)
place_row_before_ties(sorted, row) ==
    IF sorted = <<>> \/ sorted[Len(sorted)].ts < row.ts
    THEN Append(sorted, row)
    ELSE Append(place_row_before_ties(SubSeq(sorted, 1, Len(sorted) - 1), row),
                sorted[Len(sorted)])

RECURSIVE place_row(_, _)
place_row(sorted, row) ==
    IF sorted = <<>> \/ sorted[Len(sorted)].ts <= row.ts
    THEN Append(sorted, row)
    ELSE Append(place_row(SubSeq(sorted, 1, Len(sorted) - 1), row),
                sorted[Len(sorted)])

RECURSIVE order_by_timestamp(_, _, _)
order_by_timestamp(rows, i, sorted) ==
    IF i > Len(rows) THEN sorted
    ELSE order_by_timestamp(rows, i + 1, place_row(sorted, rows[i]))

\* get_all_events: SELECT raw_event_json FROM events ORDER BY timestamp ASC
get_all_events(evs) == order_by_timestamp(evs, 1, <<>>)

\* get_all_artifact_hashes: the hash column of every row of the artifacts table
get_all_artifact_hashes(arts) == [i \in DOMAIN arts |-> arts[i].hash]

\* get_artifact_metadata_by_hash: the row with that hash, or None
get_artifact_metadata_by_hash(artifact_hash, arts) ==
    IF \E i \in DOMAIN arts : arts[i].hash = artifact_hash
    THEN arts[CHOOSE i \in DOMAIN arts : arts[i].hash = artifact_hash]
    ELSE NoRow

\* INSERT in the place of INSERT OR REPLACE, on a table without its keys
insert_artifact_without_replace(metadata, arts) == Append(arts, metadata)

\* insert_artifact_metadata: INSERT OR REPLACE on the keys id and hash
insert_artifact_metadata(metadata, arts) ==
    LET kept(row) == row.id # metadata.id /\ row.hash # metadata.hash
    IN  Append(SelectSeq(arts, kept), metadata)

\* INSERT OR REPLACE on (action, artifact_hash) in the place of INSERT
insert_or_replace_event(event, evs) ==
    LET other(row) == ~(/\ row.action = event.action
                        /\ "artifact_hash" \in DOMAIN row
                        /\ "artifact_hash" \in DOMAIN event
                        /\ row.artifact_hash = event.artifact_hash)
    IN  Append(SelectSeq(evs, other), event)

\* insert_event: one more row
insert_event(event, evs) == Append(evs, event)

---------------------------------------------------------------------------
(* policy.py *)

default_policy_two_witnesses ==
    [governance_model |-> "Custom",
     existential_rules |-> <<[name |-> "default_export_policy", min_witnesses |-> 2]>>,
     universal_rules |-> <<>>,
     threshold_rules |-> <<>>]

\* load_policy_config: the default policy when policy.yaml does not exist
default_policy ==
    [governance_model |-> "Custom",
     existential_rules |-> <<[name |-> "default_export_policy", min_witnesses |-> 1]>>,
     universal_rules |-> <<>>,
     threshold_rules |-> <<>>]

load_policy_config(pf) == IF pf = NoFile THEN default_policy ELSE pf

\* the sign events of the loop "for event in events" that reach verify_signature
\* in check_existential_rule and check_universal_rule
is_sign_event(event) ==
    /\ Get(event, "action", None) = "sign"
    /\ Truthy(event, "artifact_hash")
    /\ Truthy(event, "artifact_signature")

\* check_existential_rule, first loop: artifact_signatures_count after the
\* events evs[i..]
RECURSIVE count_signatures(_, _, _, _)
count_signatures(evs, i, public_key, acc) ==
    IF i > Len(evs) THEN acc
    ELSE LET event == evs[i]
             is_valid == verify_signature(event.artifact_signature,
                                          event.artifact_hash, public_key)
         IN  IF is_sign_event(event) /\ is_valid
             THEN count_signatures(evs, i + 1, public_key,
                      [acc EXCEPT ![event.artifact_hash] = @ + 1])
             ELSE count_signatures(evs, i + 1, public_key, acc)

count_signatures_unverified(evs, public_key) ==
    [h \in Hashes |-> Cardinality({i \in DOMAIN evs :
        is_sign_event(evs[i]) /\ evs[i].artifact_hash = h})]

artifact_signatures_count(evs, public_key) ==
    count_signatures(evs, 1, public_key, [h \in Hashes |-> 0])

existential_at_least_one(artifact_hashes, rule, evs, kp) ==
    LET counts == artifact_signatures_count(get_all_events(evs), get_public_key(kp))
    IN  \A i \in DOMAIN artifact_hashes : counts[artifact_hashes[i]] >= 1

existential_any_hash(artifact_hashes, rule, evs, kp) ==
    LET min_witnesses == Get(rule, "min_witnesses", 1)
        counts == artifact_signatures_count(get_all_events(evs), get_public_key(kp))
    IN  \/ artifact_hashes = <<>>
        \/ \E i \in DOMAIN artifact_hashes :
              ~(counts[artifact_hashes[i]] < min_witnesses)

check_existential_rule(artifact_hashes, rule, evs, kp) ==
    LET min_witnesses == Get(rule, "min_witnesses", 1)
        public_key == get_public_key(kp)
        counts == artifact_signatures_count(get_all_events(evs), public_key)
    IN  \A i \in DOMAIN artifact_hashes :
            ~(counts[artifact_hashes[i]] < min_witnesses)

\* check_universal_rule, first loop: signed_artifacts after the events evs[i..]
RECURSIVE collect_signed(_, _, _, _)
collect_signed(evs, i, public_key, acc) ==
    IF i > Len(evs) THEN acc
    ELSE LET event == evs[i]
             is_valid == verify_signature(event.artifact_signature,
                                          event.artifact_hash, public_key)
         IN  IF is_sign_event(event) /\ is_valid
             THEN collect_signed(evs, i + 1, public_key,
                                 acc \cup {event.artifact_hash})
             ELSE collect_signed(evs, i + 1, public_key, acc)

signed_artifacts(evs, public_key) == collect_signed(evs, 1, public_key, {})

\* check_universal_rule, second loop, from artifact_hashes[i] on
RECURSIVE universal_loop(_, _, _, _)
universal_loop(artifact_hashes, i, required_validators, signed) ==
    IF i > Len(artifact_hashes) THEN TRUE
    ELSE LET h == artifact_hashes[i]
         IN  IF InList("signature", required_validators) /\ h \notin signed
             THEN FALSE
             ELSE IF InList("ledger", required_validators)
                  THEN FALSE
                  ELSE universal_loop(artifact_hashes, i + 1,
                                      required_validators, signed)

universal_ledger_assumed(artifact_hashes, rule, evs, kp) ==
    LET required_validators == Get(rule, "required_validators", <<>>)
        signed == signed_artifacts(get_all_events(evs), get_public_key(kp))
    IN  \A i \in DOMAIN artifact_hashes :
            InList("signature", required_validators) => artifact_hashes[i] \in signed

check_universal_rule(artifact_hashes, rule, evs, kp) ==
    LET required_validators == Get(rule, "required_validators", <<>>)
        public_key == get_public_key(kp)
        signed == signed_artifacts(get_all_events(evs), public_key)
    IN  universal_loop(artifact_hashes, 1, required_validators, signed)

\* check_threshold_rule, first loop: artifact_attestations_count after the
\* events evs[i..] (artifact_hash -> attestor_id -> count)
RECURSIVE count_attestations(_, _, _, _, _)
count_attestations(evs, i, attestors, public_key, acc) ==
    IF i > Len(evs) THEN acc
    ELSE LET event == evs[i]
             attestor_id == Get(event, "by", None)
             is_valid == verify_signature(event.artifact_signature,
                                          event.artifact_hash, public_key)
         IN  IF /\ Get(event, "action", None) = "sign"
                /\ Truthy(event, "artifact_hash")
                /\ Truthy(event, "by")
                /\ InList(attestor_id, attestors)
                /\ Truthy(event, "artifact_signature")
                /\ is_valid
             THEN count_attestations(evs, i + 1, attestors, public_key,
                      [acc EXCEPT ![event.artifact_hash][attestor_id] = @ + 1])
             ELSE count_attestations(evs, i + 1, attestors, public_key, acc)

artifact_attestations_count(evs, attestors, public_key) ==
    count_attestations(evs, 1, attestors, public_key,
                       [h \in Hashes |-> [a \in Fingerprints |-> 0]])

\* check_threshold_rule, inner loop "for attestor_id_raw in attestors", from
\* attestors[j] on: valid_attestations_for_artifact
RECURSIVE valid_attestations(_, _, _, _)
valid_attestations(attestors, j, counts_h, acc) ==
    IF j > Len(attestors) THEN acc
    ELSE IF attestors[j] = None
         THEN valid_attestations(attestors, j + 1, counts_h, acc)
         ELSE IF Get(counts_h, attestors[j], 0) > 0
              THEN valid_attestations(attestors, j + 1, counts_h, acc + 1)
              ELSE valid_attestations(attestors, j + 1, counts_h, acc)

threshold_skips_malformed(artifact_hashes, rule, evs, kp) ==
    LET attestors == Get(rule, "attestors", <<>>)
    IN  IF "k" \notin DOMAIN rule \/ "n" \notin DOMAIN rule \/ attestors = <<>>
        THEN TRUE
        ELSE LET counts == artifact_attestations_count(get_all_events(evs),
                                                       attestors, get_public_key(kp))
             IN  \A i \in DOMAIN artifact_hashes :
                     ~(valid_attestations(attestors, 1,
                                          counts[artifact_hashes[i]], 0) < rule.k)

\* k is None or n is None or not attestors (a key that is absent and a key
\* with a null value both read as None)
threshold_rule_malformed(rule) ==
    \/ "k" \notin DOMAIN rule
    \/ "n" \notin DOMAIN rule
    \/ Get(rule, "attestors", <<>>) = <<>>

check_threshold_rule(artifact_hashes, rule, evs, kp) ==
    LET k == rule.k
        attestors == Get(rule, "attestors", <<>>)
    IN  IF threshold_rule_malformed(rule) THEN FALSE
        ELSE LET public_key == get_public_key(kp)
                 counts == artifact_attestations_count(get_all_events(evs),
                                                       attestors, public_key)
             IN  \A i \in DOMAIN artifact_hashes :
                     ~(valid_attestations(attestors, 1,
                                          counts[artifact_hashes[i]], 0) < k)

\* can_export: the three loops over the rule lists, each with an early return
RECURSIVE existential_rules_loop(_, _, _, _, _)
existential_rules_loop(rules, r, artifact_hashes, evs, kp) ==
    IF r > Len(rules) THEN TRUE
    ELSE IF ~check_existential_rule(artifact_hashes, rules[r], evs, kp) THEN FALSE
         ELSE existential_rules_loop(rules, r + 1, artifact_hashes, evs, kp)

RECURSIVE universal_rules_loop(_, _, _, _, _)
universal_rules_loop(rules, r, artifact_hashes, evs, kp) ==
    IF r > Len(rules) THEN TRUE
    ELSE IF ~check_universal_rule(artifact_hashes, rules[r], evs, kp) THEN FALSE
         ELSE universal_rules_loop(rules, r + 1, artifact_hashes, evs, kp)

RECURSIVE threshold_rules_loop(_, _, _, _, _)
threshold_rules_loop(rules, r, artifact_hashes, evs, kp) ==
    IF r > Len(rules) THEN TRUE
    ELSE IF ~check_threshold_rule(artifact_hashes, rules[r], evs, kp) THEN FALSE
         ELSE threshold_rules_loop(rules, r + 1, artifact_hashes, evs, kp)

can_export_without_threshold(artifact_hashes, pf, evs, kp) ==
    LET policy_config == load_policy_config(pf)
    IN  /\ existential_rules_loop(Get(policy_config, "existential_rules", <<>>),
                                  1, artifact_hashes, evs, kp)
        /\ universal_rules_loop(Get(policy_config, "universal_rules", <<>>),
                                1, artifact_hashes, evs, kp)

\* the decision read off the artifact records: every target hash has an
\* assertion attached
can_export_from_records(artifact_hashes, pf, evs, kp) ==
    \A i \in DOMAIN artifact_hashes :
        "c2pa_assertion" \in
            DOMAIN get_artifact_metadata_by_hash(artifact_hashes[i], artifacts)

can_export(artifact_hashes, pf, evs, kp) ==
    LET policy_config == load_policy_config(pf)
    IN  IF ~existential_rules_loop(Get(policy_config, "existential_rules", <<>>),
                                   1, artifact_hashes, evs, kp)
        THEN FALSE
        ELSE IF ~universal_rules_loop(Get(policy_config, "universal_rules", <<>>),
                                      1, artifact_hashes, evs, kp)
             THEN FALSE
             ELSE IF ~threshold_rules_loop(Get(policy_config, "threshold_rules", <<>>),
                                           1, artifact_hashes, evs, kp)
                  THEN FALSE
                  ELSE TRUE

\* what a call of the evaluator yields: the boolean it returns, or the
\* exception it lets out
Outcome(returned) == IF returned THEN "True" ELSE "False"

\* the loop "for event in events" of check_existential_rule and
\* check_universal_rule raises: a sign event reaches bytes.fromhex with a
\* string that is no hex
sign_loop_raises(evs) ==
    \E i \in DOMAIN evs :
        is_sign_event(evs[i]) /\ fromhex_raises(evs[i].artifact_signature)

\* the loop of check_threshold_rule raises: bytes.fromhex is reached by the
\* sign events of the allowlisted attestors
attestation_loop_raises(rule, evs) ==
    LET attestors == Get(rule, "attestors", <<>>)
    IN  /\ ~threshold_rule_malformed(rule)
        /\ \E i \in DOMAIN evs :
              /\ Get(evs[i], "action", None) = "sign"
              /\ Truthy(evs[i], "artifact_hash")
              /\ Truthy(evs[i], "by")
              /\ InList(evs[i].by, attestors)
              /\ Truthy(evs[i], "artifact_signature")
              /\ fromhex_raises(evs[i].artifact_signature)

\* one call of the rule function of a category on the rows evs
rule_outcome(category, artifact_hashes, rule, evs, kp) ==
    IF category = "existential_rules"
    THEN IF sign_loop_raises(evs) THEN "ValueError"
         ELSE Outcome(check_existential_rule(artifact_hashes, rule, evs, kp))
    ELSE IF category = "universal_rules"
    THEN IF sign_loop_raises(evs) THEN "ValueError"
         ELSE Outcome(check_universal_rule(artifact_hashes, rule, evs, kp))
    ELSE IF attestation_loop_raises(rule, evs) THEN "ValueError"
         ELSE Outcome(check_threshold_rule(artifact_hashes, rule, evs, kp))

\* one loop of can_export over the rules of a category, from rules[r] on
RECURSIVE rules_loop_outcome(_, _, _, _, _, _)
rules_loop_outcome(category, rules, r, artifact_hashes, evs, kp) ==
    IF r > Len(rules) THEN "True"
    ELSE LET passed == rule_outcome(category, artifact_hashes, rules[r], evs, kp)
         IN  IF passed # "True" THEN passed
             ELSE rules_loop_outcome(category, rules, r + 1, artifact_hashes, evs, kp)

\* the order in which can_export goes through the categories
Categories == <<"existential_rules", "universal_rules", "threshold_rules">>

\* can_export from the category Categories[c] on
RECURSIVE categories_outcome(_, _, _, _, _)
categories_outcome(c, artifact_hashes, policy, evs, kp) ==
    IF c > Len(Categories) THEN "True"
    ELSE LET passed == rules_loop_outcome(Categories[c], Get(policy, Categories[c], <<>>),
                                          1, artifact_hashes, evs, kp)
         IN  IF passed # "True" THEN passed
             ELSE categories_outcome(c + 1, artifact_hashes, policy, evs, kp)

\* can_export: "True" or "False" where it returns, "ValueError" where
\* bytes.fromhex raises in one of its rules
can_export_outcome(artifact_hashes, pf, evs, kp) ==
    categories_outcome(1, artifact_hashes, load_policy_config(pf), evs, kp)

\* no call of can_export is running
NoEvaluation ==
    [pc |-> "idle", artifact_hashes |-> <<>>, category |-> 0, rule |-> 0,
     first |-> 0, last |-> 0, outcome |-> "none"]

\* the place <<c, r>> of the rule can_export calls next when it stands at the
\* r-th rule of category Categories[c]; <<0, 0>> when no rule is left
RECURSIVE next_rule(_, _, _)
next_rule(policy, c, r) ==
    IF c > Len(Categories) THEN <<0, 0>>
    ELSE IF r <= Len(Get(policy, Categories[c], <<>>)) THEN <<c, r>>
    ELSE next_rule(policy, c + 1, 1)

---------------------------------------------------------------------------
(* Policy documents and rules the model draws from *)

LocalFp == fingerprint_of(LocalKey)
ForeignFp == fingerprint_of(ForeignKey)

ExistentialRules ==
    {[name |-> "e"],
     [name |-> "e", min_witnesses |-> 1],
     [name |-> "e", min_witnesses |-> 2]}

UniversalRules ==
    {[name |-> "u"],
     [name |-> "u", required_validators |-> <<>>],
     [name |-> "u", required_validators |-> <<"signature">>],
     [name |-> "u", required_validators |-> <<"ledger">>],
     [name |-> "u", required_validators |-> <<"signature", "ledger">>]}

WellFormedThresholdRules ==
    {[name |-> "t", k |-> 1, n |-> 1, attestors |-> <<LocalFp>>],
     [name |-> "t", k |-> 1, n |-> 1, attestors |-> <<ForeignFp>>],
     [name |-> "t", k |-> 1, n |-> 2, attestors |-> <<LocalFp, ForeignFp>>],
     [name |-> "t", k |-> 2, n |-> 2, attestors |-> <<LocalFp, ForeignFp>>],
     [name |-> "t", k |-> 1, n |-> 2, attestors |-> <<None, ForeignFp>>],
     [name |-> "t", k |-> 2, n |-> 2, attestors |-> <<LocalFp, LocalFp>>]}

MalformedThresholdRules ==
    {[name |-> "t", n |-> 1, attestors |-> <<LocalFp>>],
     [name |-> "t", k |-> 1, attestors |-> <<LocalFp>>],
     [name |-> "t", k |-> 1, n |-> 1],
     [name |-> "t", k |-> 1, n |-> 1, attestors |-> <<>>]}

ThresholdRules == WellFormedThresholdRules \cup MalformedThresholdRules

\* contents of policy.yaml
PolicyTwoExistential ==
    [existential_rules |-> <<[name |-> "e", min_witnesses |-> 1],
                             [name |-> "e", min_witnesses |-> 2]>>,
     universal_rules |-> <<>>, threshold_rules |-> <<>>]

\* tests/test_policy.py test_export_command_universal_rule
PolicyLedger ==
    [existential_rules |-> <<[name |-> "e", min_witnesses |-> 1]>>,
     universal_rules |-> <<[name |-> "u", required_validators |-> <<"ledger">>]>>,
     threshold_rules |-> <<>>]

\* tests/test_policy.py test_export_command_threshold_rule
PolicyTwoOfTwo ==
    [existential_rules |-> <<[name |-> "e", min_witnesses |-> 1]>>,
     universal_rules |-> <<>>,
     threshold_rules |-> <<[name |-> "t", k |-> 2, n |-> 2,
                            attestors |-> <<LocalFp, ForeignFp>>]>>]

PolicyForeignAttestor ==
    [universal_rules |-> <<[name |-> "u", required_validators |-> <<"signature">>],
                           [name |-> "u", required_validators |-> <<>>]>>,
     threshold_rules |-> <<[name |-> "t", k |-> 1, n |-> 1,
                            attestors |-> <<ForeignFp>>]>>]

PolicyMalformedThreshold ==
    [existential_rules |-> <<[name |-> "e"]>>,
     threshold_rules |-> <<[name |-> "t", k |-> 1, n |-> 1]>>]

PolicyMalformedUniversal ==
    [universal_rules |-> <<[name |-> "u"]>>]

PolicyFiles ==
    {NoFile, PolicyTwoExistential, PolicyLedger, PolicyTwoOfTwo,
     PolicyForeignAttestor, PolicyMalformedThreshold, PolicyMalformedUniversal}

\* argument lists of can_export
TargetLists == {<<>>, <<"H1">>, <<"H2">>, <<"H1", "H2">>, <<"H2", "H1">>}

---------------------------------------------------------------------------
(* key_manager.py: FileKeyBackend *)

\* the FileKeyBackend objects of the process, all over one key_dir
Instances == {"a", "b"}

\* public_bytes(PEM, SubjectPublicKeyInfo) and load_pem_public_key
public_pem(public_key) == [pem |-> public_key]

load_pem_public_key(public_key_pem) == public_key_pem.pem

\* FileKeyBackend.__init__
FileKeyBackend_init == [_private_key |-> NoKey, _key_id |-> None]

\* _calculate_fingerprint_from_public_key: "sha256:" + hex(SHA256(DER(pub)))
FileKeyBackend_calculate_fingerprint(public_key) == fingerprint_of(public_key)

\* _load_or_generate_keypair: the instance, the key directory and the number of
\* generated keys after the call
FileKeyBackend_load_or_generate_keypair(self, dir, gen) ==
    IF self._private_key # NoKey
    THEN [self |-> self, dir |-> dir, gen |-> gen]
    ELSE IF dir.key # NoKey
         THEN [self |-> [_private_key |-> dir.key,
                         _key_id |-> FileKeyBackend_calculate_fingerprint(dir.key)],
               dir |-> dir, gen |-> gen]
         ELSE LET private_key == generated_key(gen + 1)
              IN  [self |-> [_private_key |-> private_key,
                             _key_id |-> FileKeyBackend_calculate_fingerprint(private_key)],
                   dir |-> [key |-> private_key, pub |-> private_key],
                   gen |-> gen + 1]

\* what a call returns or raises
Returned(op, backend, value) == [op |-> op, backend |-> backend, ok |-> TRUE, value |-> value]

Raised(op, backend, error) == [op |-> op, backend |-> backend, ok |-> FALSE, value |-> error]

\* the arguments of a call: key_id, signature and digest where the call has them
Args(key_id, signature, digest) ==
    [key_id |-> key_id, signature |-> signature, digest |-> digest]

\* no signature among the arguments
NoSignature == [enc |-> "none", signer |-> None, msg |-> None, k |-> 0]

NoArgs == Args(None, NoSignature, None)

\* digests a caller can pass
Digests == {"D1", "D2"}

\* nonces the signing library can draw
Nonces == {1, 2}

\* the 96 bytes r + s of the pair a DER signature encodes
raw_r_s(signature) == [signature EXCEPT !.enc = "raw"]

\* encode_dss_signature(int(signature[:48]), int(signature[48:])): the DER
\* encoding of the pair that the two slices are read as; only 96 bytes r + s
\* give back the pair they were made from
encode_dss_slices(signature) ==
    IF signature.enc = "raw"
    THEN [signature EXCEPT !.enc = "der"]
    ELSE [signature EXCEPT !.enc = "bytes"]

\* a proper prefix of the bytes of a signature
truncated(signature) == [signature EXCEPT !.enc = "truncated"]

\* b""
EmptySignature == [enc |-> "empty", signer |-> None, msg |-> None, k |-> 0]

\* DER signatures a caller can hold: by the first key over each digest and
\* with each nonce, and by another key
DerSignatures ==
    {ecdsa_sign(generated_key(1), digest, k) : digest \in Digests, k \in Nonces}
    \cup {ecdsa_sign(generated_key(2), "D1", 1)}

\* signature bytes a caller can pass: DER signatures, an r + s pair, a
\* truncated signature, the empty string and bytes of the wrong length
SignatureBytes ==
    DerSignatures \cup {raw_r_s(ecdsa_sign(generated_key(1), "D1", 1)),
                        truncated(ecdsa_sign(generated_key(1), "D1", 1)),
                        EmptySignature, DummySignature}

\* key_ids a caller can pass
KeyIds == {fingerprint_of(k) : k \in GeneratedKeys} \cup {"sha256:unknown"}

\* a = FileKeyBackend(key_dir): a new object takes the place of instance i
FileKeyBackend_new(i) ==
    /\ instances' = [instances EXCEPT ![i] = FileKeyBackend_init]
    /\ ret' = Returned("__init__", i, None)
    /\ UNCHANGED <<key_dir, generated, tpm, cli_vars, evaluation>>
    /\ call' = NoArgs

\* a key pair on every call: generate_key_pair without the load of lines 109-119
generate_key_pair_always_new(i) ==
    LET private_key == generated_key(generated + 1)
        key_id == FileKeyBackend_calculate_fingerprint(private_key)
    IN  /\ generated < MaxGenerated
        /\ instances' = [instances EXCEPT ![i] =
                            [_private_key |-> private_key, _key_id |-> key_id]]
        /\ key_dir' = [key |-> private_key, pub |-> private_key]
        /\ generated' = generated + 1
        /\ ret' = Returned("generate_key_pair", i,
                           [key_id |-> key_id, public_key_pem |-> public_pem(private_key)])
        /\ UNCHANGED <<tpm, cli_vars, evaluation>>
        /\ call' = NoArgs

\* FileKeyBackend.generate_key_pair
FileKeyBackend_generate_key_pair(i) ==
    LET st == FileKeyBackend_load_or_generate_keypair(instances[i], key_dir, generated)
        key_id == st.self._key_id
        \* get_public_key_pem(key_id) -> get_public_key(key_id): the key is loaded
        \* and _key_id = key_id
        public_key_pem == public_pem(st.self._private_key)
    IN  /\ st.gen <= MaxGenerated
        /\ instances' = [instances EXCEPT ![i] = st.self]
        /\ key_dir' = st.dir
        /\ generated' = st.gen
        /\ ret' = IF key_id = None
                  THEN Raised("generate_key_pair", i, "RuntimeError")
                  ELSE Returned("generate_key_pair", i,
                                [key_id |-> key_id, public_key_pem |-> public_key_pem])
        /\ UNCHANGED <<tpm, cli_vars, evaluation>>
        /\ call' = NoArgs

\* FileKeyBackend.get_public_key_fingerprint
FileKeyBackend_get_public_key_fingerprint(i, key_id) ==
    /\ ret' = IF instances[i]._key_id # key_id
              THEN Raised("get_public_key_fingerprint", i, "ValueError")
              ELSE Returned("get_public_key_fingerprint", i,
                            [key_id |-> instances[i]._key_id])
    /\ UNCHANGED <<key_dir, instances, generated, tpm, cli_vars, evaluation>>
    /\ call' = Args(key_id, NoSignature, None)

\* FileKeyBackend.list_keys
FileKeyBackend_list_keys(i) ==
    LET st == FileKeyBackend_load_or_generate_keypair(instances[i], key_dir, generated)
    IN  IF key_dir.key # NoKey
        THEN /\ instances' = [instances EXCEPT ![i] = st.self]
             /\ ret' = IF st.self._key_id = None
                       THEN Raised("list_keys", i, "RuntimeError")
                       ELSE Returned("list_keys", i,
                                <<[id |-> st.self._key_id,
                                   public_key_pem |-> public_pem(st.self._private_key)]>>)
             /\ UNCHANGED <<key_dir, generated, tpm, cli_vars, evaluation>>
             /\ call' = NoArgs
        ELSE /\ ret' = Returned("list_keys", i, <<>>)
             /\ UNCHANGED <<key_dir, instances, generated, tpm, cli_vars, evaluation>>
             /\ call' = NoArgs

\* delete_key that unlinks the files and keeps _key_id
delete_key_keeps_key_id(i, key_id) ==
    IF instances[i]._key_id # key_id
    THEN /\ ret' = Raised("delete_key", i, "ValueError")
         /\ UNCHANGED <<key_dir, instances, generated, tpm, cli_vars, evaluation>>
         /\ call' = Args(key_id, NoSignature, None)
    ELSE /\ key_dir' = [key |-> NoKey, pub |-> NoKey]
         /\ instances' = [instances EXCEPT ![i]._private_key = NoKey]
         /\ ret' = Returned("delete_key", i, None)
         /\ UNCHANGED <<generated, tpm, cli_vars, evaluation>>
         /\ call' = Args(key_id, NoSignature, None)

\* FileKeyBackend.delete_key
FileKeyBackend_delete_key(i, key_id) ==
    IF instances[i]._key_id # key_id
    THEN /\ ret' = Raised("delete_key", i, "ValueError")
         /\ UNCHANGED <<key_dir, instances, generated, tpm, cli_vars, evaluation>>
         /\ call' = Args(key_id, NoSignature, None)
    ELSE /\ key_dir' = [key |-> NoKey, pub |-> NoKey]
         /\ instances' = [instances EXCEPT ![i] = FileKeyBackend_init]
         /\ ret' = Returned("delete_key", i, None)
         /\ UNCHANGED <<generated, tpm, cli_vars, evaluation>>
         /\ call' = Args(key_id, NoSignature, None)

\* get_public_key(key_id): the instance and the key directory after the
\* load, and the key or the ValueError of a key_id that is not _key_id
FileKeyBackend_get_public_key(self, dir, gen, key_id) ==
    LET st == FileKeyBackend_load_or_generate_keypair(self, dir, gen)
    IN  [st |-> st,
         ok |-> st.self._key_id = key_id,
         value |-> IF st.self._key_id = key_id THEN st.self._private_key
                   ELSE "ValueError"]

\* FileKeyBackend.get_public_key_pem
FileKeyBackend_get_public_key_pem(i, key_id) ==
    LET got == FileKeyBackend_get_public_key(instances[i], key_dir, generated, key_id)
    IN  /\ got.st.gen <= MaxGenerated
        /\ instances' = [instances EXCEPT ![i] = got.st.self]
        /\ key_dir' = got.st.dir
        /\ generated' = got.st.gen
        /\ ret' = IF got.ok
                  THEN Returned("get_public_key_pem", i, public_pem(got.value))
                  ELSE Raised("get_public_key_pem", i, got.value)
        /\ call' = Args(key_id, NoSignature, None)
        /\ UNCHANGED <<tpm, cli_vars, evaluation>>

\* sign_digest that signs with the loaded key whatever key_id is
sign_digest_any_key_id(i, key_id, digest, k) ==
    LET st == FileKeyBackend_load_or_generate_keypair(instances[i], key_dir, generated)
    IN  /\ st.gen <= MaxGenerated
        /\ instances' = [instances EXCEPT ![i] = st.self]
        /\ key_dir' = st.dir
        /\ generated' = st.gen
        /\ ret' = Returned("sign_digest", i, ecdsa_sign(st.self._private_key, digest, k))
        /\ call' = Args(key_id, NoSignature, digest)
        /\ UNCHANGED <<tpm, cli_vars, evaluation>>

\* FileKeyBackend.sign_digest; k is the nonce the library draws
FileKeyBackend_sign_digest(i, key_id, digest, k) ==
    LET st == FileKeyBackend_load_or_generate_keypair(instances[i], key_dir, generated)
    IN  /\ st.gen <= MaxGenerated
        /\ instances' = [instances EXCEPT ![i] = st.self]
        /\ key_dir' = st.dir
        /\ generated' = st.gen
        /\ ret' = IF st.self._key_id # key_id
                  THEN Raised("sign_digest", i, "ValueError")
                  ELSE Returned("sign_digest", i,
                                ecdsa_sign(st.self._private_key, digest, k))
        /\ call' = Args(key_id, NoSignature, digest)
        /\ UNCHANGED <<tpm, cli_vars, evaluation>>

\* verify_signature that lets the library's exception out
verify_signature_raising(i, key_id, signature, digest) ==
    LET got == FileKeyBackend_get_public_key(instances[i], key_dir, generated, key_id)
    IN  /\ got.st.gen <= MaxGenerated
        /\ instances' = [instances EXCEPT ![i] = got.st.self]
        /\ key_dir' = got.st.dir
        /\ generated' = got.st.gen
        /\ ret' = IF ~got.ok
                  THEN Raised("verify_signature", i, got.value)
                  ELSE IF ecdsa_verify(got.value, signature, digest)
                  THEN Returned("verify_signature", i, TRUE)
                  ELSE Raised("verify_signature", i, "InvalidSignature")
        /\ call' = Args(key_id, signature, digest)
        /\ UNCHANGED <<tpm, cli_vars, evaluation>>

\* FileKeyBackend.verify_signature
FileKeyBackend_verify_signature(i, key_id, signature, digest) ==
    LET got == FileKeyBackend_get_public_key(instances[i], key_dir, generated, key_id)
    IN  /\ got.st.gen <= MaxGenerated
        /\ instances' = [instances EXCEPT ![i] = got.st.self]
        /\ key_dir' = got.st.dir
        /\ generated' = got.st.gen
        /\ ret' = IF ~got.ok
                  THEN Raised("verify_signature", i, got.value)
                  ELSE Returned("verify_signature", i,
                                ecdsa_verify(got.value, signature, digest))
        /\ call' = Args(key_id, signature, digest)
        /\ UNCHANGED <<tpm, cli_vars, evaluation>>

\* FileKeyBackend.get_algorithm
FileKeyBackend_get_algorithm(i, key_id) ==
    LET st == FileKeyBackend_load_or_generate_keypair(instances[i], key_dir, generated)
    IN  /\ st.gen <= MaxGenerated
        /\ instances' = [instances EXCEPT ![i] = st.self]
        /\ key_dir' = st.dir
        /\ generated' = st.gen
        /\ ret' = IF st.self._key_id # key_id
                  THEN Raised("get_algorithm", i, "ValueError")
                  ELSE Returned("get_algorithm", i, "ES384")
        /\ call' = Args(key_id, NoSignature, None)
        /\ UNCHANGED <<tpm, cli_vars, evaluation>>

---------------------------------------------------------------------------
(* tpm_key_manager.py: TpmKeyBackend.  The module holds at most one key at   *)
(* the fixed persistent handle and a number of loaded transient objects; an  *)
(* ESAPI call either does its work or raises TPM2_Exception (tpm_ok).        *)

\* _calculate_fingerprint_from_public_key(public_key_pem)
TpmKeyBackend_calculate_fingerprint(public_key_pem) ==
    fingerprint_of(load_pem_public_key(public_key_pem))

\* get_public_key / get_public_key_pem: readpublic of the persistent handle and
\* the comparison of its fingerprint with key_id
TpmKeyBackend_get_public_key_pem(key_id, module, tpm_ok) ==
    IF ~tpm_ok \/ module.persistent = NoKey
    THEN [ok |-> FALSE, value |-> "RuntimeError"]
    ELSE LET public_key_pem == public_pem(module.persistent)
         IN  IF TpmKeyBackend_calculate_fingerprint(public_key_pem) # key_id
             THEN [ok |-> FALSE, value |-> "ValueError"]
             ELSE [ok |-> TRUE, value |-> public_key_pem]

\* TpmKeyBackend.generate_key_pair
TpmKeyBackend_generate_key_pair(tpm_ok) ==
    LET created == generated_key(generated + 1)
        public_key_pem == public_pem(created)
        key_id == TpmKeyBackend_calculate_fingerprint(public_key_pem)
    IN  /\ generated < MaxGenerated
        /\ IF ~tpm_ok
           THEN \* esapi.create raises
                /\ ret' = Raised("generate_key_pair", "tpm", "RuntimeError")
                /\ UNCHANGED <<tpm, generated>>
           ELSE IF tpm.persistent # NoKey
           THEN \* created and loaded; evictcontrol finds the handle taken
                /\ generated' = generated + 1
                /\ tpm' = [tpm EXCEPT !.transient = @ + 1]
                /\ ret' = Raised("generate_key_pair", "tpm", "RuntimeError")
           ELSE /\ generated' = generated + 1
                /\ tpm' = [persistent |-> created, transient |-> tpm.transient + 1]
                /\ ret' = Returned("generate_key_pair", "tpm",
                              [key_id |-> key_id, public_key_pem |-> public_key_pem])
        /\ UNCHANGED <<key_dir, instances, cli_vars, evaluation>>
        /\ call' = NoArgs

\* TpmKeyBackend.get_public_key_fingerprint
TpmKeyBackend_get_public_key_fingerprint(key_id, tpm_ok) ==
    LET got == TpmKeyBackend_get_public_key_pem(key_id, tpm, tpm_ok)
    IN  /\ ret' = IF got.ok
                  THEN Returned("get_public_key_fingerprint", "tpm", [key_id |-> key_id])
                  ELSE Raised("get_public_key_fingerprint", "tpm", got.value)
        /\ UNCHANGED <<key_dir, instances, generated, tpm, cli_vars, evaluation>>
        /\ call' = Args(key_id, NoSignature, None)

\* TpmKeyBackend.list_keys
TpmKeyBackend_list_keys(tpm_ok) ==
    LET public_key_pem == public_pem(tpm.persistent)
    IN  /\ ret' = IF ~tpm_ok
                  THEN Raised("list_keys", "tpm", "RuntimeError")
                  ELSE IF tpm.persistent = NoKey
                  THEN Returned("list_keys", "tpm", <<>>)
                  ELSE Returned("list_keys", "tpm",
                           <<[id |-> TpmKeyBackend_calculate_fingerprint(public_key_pem),
                              public_key_pem |-> public_key_pem]>>)
        /\ UNCHANGED <<key_dir, instances, generated, tpm, cli_vars, evaluation>>
        /\ call' = NoArgs

\* TpmKeyBackend.delete_key
TpmKeyBackend_delete_key(key_id, tpm_ok) ==
    LET got == TpmKeyBackend_get_public_key_pem(key_id, tpm, tpm_ok)
    IN  IF ~got.ok
        THEN /\ ret' = Raised("delete_key", "tpm", got.value)
             /\ UNCHANGED <<key_dir, instances, generated, tpm, cli_vars, evaluation>>
             /\ call' = Args(key_id, NoSignature, None)
        ELSE /\ tpm' = [tpm EXCEPT !.persistent = NoKey]
             /\ ret' = Returned("delete_key", "tpm", None)
             /\ UNCHANGED <<key_dir, instances, generated, cli_vars, evaluation>>
             /\ call' = Args(key_id, NoSignature, None)

\* the steps of sign_digest at which an ESAPI call can raise TPM2_Exception
SignFailures == {"none", "readpublic", "load", "sign", "flushcontext"}

\* TpmKeyBackend.sign_digest: readpublic and load of the persistent key, sign,
\* flushcontext, and r + s of the signature; k is the nonce the module draws.
\* key_id is not looked at.  load finds no room once MaxTransient objects are
\* loaded.
TpmKeyBackend_sign_digest(key_id, digest, k, fails) ==
    /\ IF fails = "readpublic" \/ tpm.persistent = NoKey
       THEN /\ ret' = Raised("sign_digest", "tpm", "RuntimeError")
            /\ UNCHANGED tpm
       ELSE IF fails = "load" \/ tpm.transient >= MaxTransient
       THEN /\ ret' = Raised("sign_digest", "tpm", "RuntimeError")
            /\ UNCHANGED tpm
       ELSE IF fails \in {"sign", "flushcontext"}
       THEN \* the except clause is entered with the key still loaded
            /\ tpm' = [tpm EXCEPT !.transient = @ + 1]
            /\ ret' = Raised("sign_digest", "tpm", "RuntimeError")
       ELSE /\ ret' = Returned("sign_digest", "tpm",
                               raw_r_s(ecdsa_sign(tpm.persistent, digest, k)))
            /\ UNCHANGED tpm
    /\ call' = Args(key_id, NoSignature, digest)
    /\ UNCHANGED <<key_dir, instances, generated, cli_vars, evaluation>>

\* TpmKeyBackend.verify_signature
TpmKeyBackend_verify_signature(key_id, signature, digest, tpm_ok) ==
    LET got == TpmKeyBackend_get_public_key_pem(key_id, tpm, tpm_ok)
        public_key == load_pem_public_key(got.value)
        ecdsa_signature == encode_dss_slices(signature)
    IN  /\ ret' = IF ~got.ok
                  THEN Raised("verify_signature", "tpm", got.value)
                  ELSE Returned("verify_signature", "tpm",
                                ecdsa_verify(public_key, ecdsa_signature, digest))
        /\ call' = Args(key_id, signature, digest)
        /\ UNCHANGED <<key_dir, instances, generated, tpm, cli_vars, evaluation>>

---------------------------------------------------------------------------
(* Calls of the functions of provenance.py on the key of the working         *)
(* directory                                                                  *)

\* signature = sign_bytes(data, get_keypair())
provenance_sign_bytes(data, k) ==
    LET private_key == get_keypair(keypair)
    IN  /\ keypair' = private_key
        /\ ret' = Returned("sign_bytes", "provenance", sign_bytes(data, private_key, k))
        /\ call' = Args(None, NoSignature, data)
        /\ UNCHANGED <<events, artifacts, artifact_files, policy_file, dist, last,
                       clock, key_dir, instances, generated, tpm, evaluation>>

\* verify_signature(signature, data): the public key is that of get_public_key()
provenance_verify_signature(signature, data) ==
    LET key_to_use == get_public_key(keypair)
    IN  /\ keypair' = key_to_use
        /\ ret' = Returned("verify_signature", "provenance",
                           verify_signature(signature, data, key_to_use))
        /\ call' = Args(None, signature, data)
        /\ UNCHANGED <<events, artifacts, artifact_files, policy_file, dist, last,
                       clock, key_dir, instances, generated, tpm, evaluation>>

\* create_assertion(artifact_hash, signature_hex)
provenance_create_assertion(artifact_hash, signature_hex) ==
    /\ keypair' = get_keypair(keypair)
    /\ ret' = Returned("create_assertion", "provenance",
                       create_assertion(artifact_hash, signature_hex, keypair))
    /\ call' = Args(None, signature_hex, artifact_hash)
    /\ UNCHANGED <<events, artifacts, artifact_files, policy_file, dist, last,
                   clock, key_dir, instances, generated, tpm, evaluation>>

---------------------------------------------------------------------------
(* State machine of the key managers *)

InitKeys ==
    /\ key_dir = [key |-> NoKey, pub |-> NoKey]
    /\ instances = [i \in Instances |-> FileKeyBackend_init]
    /\ generated = 0
    /\ tpm = [persistent |-> NoKey, transient |-> 0]
    /\ ret = [op |-> "none", backend |-> "none", ok |-> TRUE, value |-> None]
    /\ call = NoArgs

---------------------------------------------------------------------------
(* State machine: the commands of cli.py and the attestors' appends *)

SignEventCount(evs) ==
    Cardinality({i \in DOMAIN evs : evs[i].action = "sign"})

ExportEventCount(evs) ==
    Cardinality({i \in DOMAIN evs : evs[i].action = "export"})

\* sha256 of a file's content
sha256(content) == [sha256 |-> content]

\* the positional argument cli.py:132 does not pass
Missing == "missing"

\* a command that returns with status 0 after "Artifact already exists" or
\* "already signed"
Already == "already"

Init ==
    /\ events = <<>>
    /\ artifacts = <<>>
    /\ artifact_files = {}
    /\ policy_file \in PolicyFiles
    /\ keypair = NoKey
    /\ dist = [tarball |-> NoFile, checksums |-> NoFile, sbom |-> NoFile, slsa |-> NoFile]
    /\ last = [cmd |-> "none", exit |-> "ok"]
    /\ clock = 1
    /\ InitKeys
    /\ evaluation = NoEvaluation

\* capture without the look-up of cli.py:81-85
capture_again(content_hash) ==
    LET artifact_id == uuid5(content_hash)
        artifact_record == [id |-> artifact_id, kind |-> "capture",
                            uri |-> "file://" \o content_hash, hash |-> content_hash]
    IN  /\ Len(events) < 3
        /\ artifact_files' = artifact_files \cup {content_hash}
        /\ artifacts' = insert_artifact_metadata(artifact_record, artifacts)
        /\ keypair' = get_keypair(keypair)
        /\ events' = insert_event(
               [ts |-> clock,
                action |-> "capture",
                by |-> get_public_key_fingerprint(keypair),
                artifact_hash |-> content_hash,
                artifact_id |-> artifact_id], events)
        /\ last' = [cmd |-> "capture", exit |-> "ok"]
        /\ UNCHANGED <<policy_file, dist, clock, key_vars, evaluation>>

\* kairoscope capture <file with content hash content_hash>
capture(content_hash) ==
    LET artifact_id == uuid5(content_hash)
        existing_artifact == get_artifact_metadata_by_hash(content_hash, artifacts)
        artifact_record == [id |-> artifact_id, kind |-> "capture",
                            uri |-> "file://" \o content_hash, hash |-> content_hash]
    IN  IF existing_artifact # NoRow
        THEN /\ last' = [cmd |-> "capture", exit |-> Already]
             /\ UNCHANGED <<events, artifacts, artifact_files, policy_file,
                            keypair, dist, clock, key_vars, evaluation>>
        ELSE /\ artifact_files' = artifact_files \cup {content_hash}
             /\ artifacts' = insert_artifact_metadata(artifact_record, artifacts)
             /\ keypair' = get_keypair(keypair)
             /\ events' = insert_event(
                    [ts |-> clock,
                     action |-> "capture",
                     by |-> get_public_key_fingerprint(keypair),
                     artifact_hash |-> content_hash,
                     artifact_id |-> artifact_id], events)
             /\ last' = [cmd |-> "capture", exit |-> "ok"]
             /\ UNCHANGED <<policy_file, dist, clock, key_vars, evaluation>>

\* a run of capture that ends between the write of the file in artifacts/
\* (cli.py:91-92) and the commit of its record (cli.py:100): a storage fault
\* in insert_artifact_metadata, or the process is stopped
capture_interrupted(content_hash) ==
    LET existing_artifact == get_artifact_metadata_by_hash(content_hash, artifacts)
    IN  /\ existing_artifact = NoRow
        /\ artifact_files' = artifact_files \cup {content_hash}
        /\ last' = [cmd |-> "capture", exit |-> "error"]
        /\ UNCHANGED <<events, artifacts, policy_file, keypair, dist, clock, key_vars, evaluation>>

\* sign without the test of cli.py:127-130
sign_again(artifact_hash) ==
    LET artifact_record == get_artifact_metadata_by_hash(artifact_hash, artifacts)
        signature == sign_bytes(artifact_hash, Missing, 1)
    IN  /\ last' = IF artifact_record = NoRow
                   THEN [cmd |-> "sign", exit |-> "abort"]
                   ELSE IF signature = TypeError
                        THEN [cmd |-> "sign", exit |-> "error"]
                        ELSE [cmd |-> "sign", exit |-> "ok"]
        /\ UNCHANGED <<events, artifacts, artifact_files, policy_file,
                       keypair, dist, clock, key_vars, evaluation>>

\* kairoscope sign <artifact_hash>
sign(artifact_hash) ==
    LET artifact_record == get_artifact_metadata_by_hash(artifact_hash, artifacts)
        \* cli.py:132 calls sign_bytes with the data alone
        signature == sign_bytes(artifact_hash, Missing, 1)
        assertion == create_assertion(artifact_hash, signature, keypair)
        signed_record == [id |-> artifact_record.id, kind |-> artifact_record.kind,
                          uri |-> artifact_record.uri, hash |-> artifact_record.hash,
                          c2pa_assertion |-> assertion]
    IN  IF artifact_record = NoRow
        THEN /\ last' = [cmd |-> "sign", exit |-> "abort"]
             /\ UNCHANGED <<events, artifacts, artifact_files, policy_file,
                            keypair, dist, clock, key_vars, evaluation>>
        ELSE IF "c2pa_assertion" \in DOMAIN artifact_record
        THEN /\ last' = [cmd |-> "sign", exit |-> Already]
             /\ UNCHANGED <<events, artifacts, artifact_files, policy_file,
                            keypair, dist, clock, key_vars, evaluation>>
        ELSE IF signature = TypeError
        THEN /\ last' = [cmd |-> "sign", exit |-> "error"]
             /\ UNCHANGED <<events, artifacts, artifact_files, policy_file,
                            keypair, dist, clock, key_vars, evaluation>>
        ELSE /\ artifacts' = insert_artifact_metadata(signed_record, artifacts)
             /\ keypair' = get_keypair(keypair)
             /\ events' = insert_event(
                    [ts |-> clock,
                     action |-> "sign",
                     by |-> get_public_key_fingerprint(keypair),
                     artifact_hash |-> artifact_hash,
                     artifact_signature |-> signature,
                     c2pa_assertion |-> assertion], events)
             /\ last' = [cmd |-> "sign", exit |-> "ok"]
             /\ UNCHANGED <<artifact_files, policy_file, dist, clock, key_vars, evaluation>>

\* export without the policy gate of cli.py:223
export_ungated(sbom, slsa, sbom_ok) ==
    LET all_artifact_hashes == get_all_artifact_hashes(artifacts)
        tarball == [members |-> artifact_files]
        tarball_hash == sha256(tarball)
    IN  /\ ExportEventCount(events) < MaxExports
        /\ all_artifact_hashes # <<>>
        /\ ~(sbom /\ ~sbom_ok)
        /\ dist' = [tarball |-> tarball,
                    checksums |-> tarball_hash,
                    sbom |-> IF sbom THEN [bom |-> "environment"] ELSE dist.sbom,
                    slsa |-> IF slsa THEN [subject |-> tarball_hash] ELSE dist.slsa]
        /\ keypair' = get_keypair(keypair)
        /\ events' = insert_event(
               [ts |-> clock,
                action |-> "export",
                by |-> get_public_key_fingerprint(keypair),
                exported_tarball |-> "dist/kairoscope-v0.1.0.tar.gz",
                tarball_hash |-> tarball_hash,
                artifacts_exported |-> all_artifact_hashes,
                sbom_generated |-> sbom,
                slsa_generated |-> slsa], events)
        /\ last' = [cmd |-> "export", exit |-> "ok"]
        /\ UNCHANGED <<artifacts, artifact_files, policy_file, clock, key_vars, evaluation>>

\* export that packs the tarball and writes the checksums before it asks the
\* policy
export_tarball_before_gate(sbom, slsa, sbom_ok) ==
    LET all_artifact_hashes == get_all_artifact_hashes(artifacts)
        tarball == [members |-> artifact_files]
        tarball_hash == sha256(tarball)
    IN  /\ ExportEventCount(events) < MaxExports
        /\ all_artifact_hashes # <<>>
        /\ ~can_export(all_artifact_hashes, policy_file, events, keypair)
        /\ dist' = [dist EXCEPT !.tarball = tarball, !.checksums = tarball_hash]
        /\ last' = [cmd |-> "export", exit |-> "abort"]
        /\ keypair' = get_keypair(keypair)
        /\ UNCHANGED <<events, artifacts, artifact_files, policy_file, clock, key_vars, evaluation>>

\* kairoscope export [--sbom] [--slsa]; sbom_ok: the cyclonedx subprocess succeeds
export(sbom, slsa, sbom_ok) ==
    LET all_artifact_hashes == get_all_artifact_hashes(artifacts)
        tarball == [members |-> artifact_files]
        tarball_hash == sha256(tarball)
    IN  /\ ExportEventCount(events) < MaxExports
        /\ UNCHANGED <<clock, key_vars, evaluation>>
        /\ IF all_artifact_hashes = <<>>
           THEN /\ last' = [cmd |-> "export", exit |-> "ok"]
                /\ UNCHANGED <<events, artifacts, artifact_files, policy_file,
                               keypair, dist>>
           ELSE IF can_export_outcome(all_artifact_hashes, policy_file, events,
                                      keypair) = "ValueError"
           THEN \* the exception of bytes.fromhex ends the command
                /\ last' = [cmd |-> "export", exit |-> "error"]
                /\ keypair' = get_keypair(keypair)
                /\ UNCHANGED <<events, artifacts, artifact_files, policy_file, dist>>
           ELSE IF ~can_export(all_artifact_hashes, policy_file, events, keypair)
           THEN /\ last' = [cmd |-> "export", exit |-> "abort"]
                /\ keypair' = get_keypair(keypair)
                /\ UNCHANGED <<events, artifacts, artifact_files, policy_file, dist>>
           ELSE IF sbom /\ ~sbom_ok
           THEN /\ dist' = [dist EXCEPT !.tarball = tarball,
                                        !.checksums = tarball_hash]
                /\ last' = [cmd |-> "export", exit |-> "abort"]
                /\ keypair' = get_keypair(keypair)
                /\ UNCHANGED <<events, artifacts, artifact_files, policy_file>>
           ELSE /\ dist' = [tarball |-> tarball,
                            checksums |-> tarball_hash,
                            sbom |-> IF sbom THEN [bom |-> "environment"] ELSE dist.sbom,
                            slsa |-> IF slsa THEN [subject |-> tarball_hash] ELSE dist.slsa]
                /\ keypair' = get_keypair(keypair)
                /\ events' = insert_event(
                       [ts |-> clock,
                        action |-> "export",
                        by |-> get_public_key_fingerprint(keypair),
                        exported_tarball |-> "dist/kairoscope-v0.1.0.tar.gz",
                        tarball_hash |-> tarball_hash,
                        artifacts_exported |-> all_artifact_hashes,
                        sbom_generated |-> sbom,
                        slsa_generated |-> slsa], events)
                /\ last' = [cmd |-> "export", exit |-> "ok"]
                /\ UNCHANGED <<artifacts, artifact_files, policy_file>>

\* signatures an attestor can store with a sign event on artifact_hash: made over
\* it or over another hash by a key that exists, or made by no key at all
AvailableSignatures(artifact_hash, kp) ==
    {sign_bytes(artifact_hash, k, 1) : k \in {ForeignKey} \cup ({kp} \ {NoKey})}
    \cup {sign_bytes(d, kp, 1) : d \in IF kp = NoKey THEN {} ELSE Hashes}
    \cup {DummySignature, MalformedHex}

\* an attestor appends a sign event through db.insert_event
attest(ts, by, artifact_hash, signature_hex) ==
    /\ SignEventCount(events) < MaxInserted
    /\ signature_hex \in AvailableSignatures(artifact_hash, keypair)
    /\ events' = insert_event(
           [ts |-> ts,
            action |-> "sign",
            by |-> by,
            artifact_hash |-> artifact_hash,
            artifact_signature |-> signature_hex,
            c2pa_assertion |-> "dummy_assertion"], events)
    /\ UNCHANGED <<artifacts, artifact_files, policy_file, keypair, dist, last,
                   clock, key_vars, evaluation>>

\* a process calls can_export(artifact_hashes): the policy is loaded, and a
\* policy without rules returns True at once.  first and last are the numbers
\* of rows the events table had at the call and at its latest step.
can_export_call(artifact_hashes) ==
    LET at == next_rule(load_policy_config(policy_file), 1, 1)
    IN  /\ evaluation.pc = "idle"
        /\ evaluation' =
               [pc |-> IF at = <<0, 0>> THEN "done" ELSE "running",
                artifact_hashes |-> artifact_hashes,
                category |-> at[1], rule |-> at[2],
                first |-> Len(events), last |-> Len(events),
                outcome |-> IF at = <<0, 0>> THEN "True" ELSE "none"]
        /\ UNCHANGED <<cli_vars, key_vars>>

\* the running call evaluates its next rule: get_public_key(), one read of the
\* events table by get_all_events, and the loops of the rule; it returns when
\* the rule fails or raises, or when it was the last rule
can_export_rule ==
    LET policy == load_policy_config(policy_file)
        category == Categories[evaluation.category]
        rule == policy[category][evaluation.rule]
        passed == rule_outcome(category, evaluation.artifact_hashes, rule,
                               events, keypair)
        at == next_rule(policy, evaluation.category, evaluation.rule + 1)
    IN  /\ evaluation.pc = "running"
        /\ keypair' = IF category = "threshold_rules" /\ threshold_rule_malformed(rule)
                      THEN keypair
                      ELSE get_public_key(keypair)
        /\ evaluation' =
               IF passed # "True" \/ at = <<0, 0>>
               THEN [evaluation EXCEPT !.pc = "done", !.outcome = passed,
                                       !.last = Len(events)]
               ELSE [evaluation EXCEPT !.category = at[1], !.rule = at[2],
                                       !.last = Len(events)]
        /\ UNCHANGED <<events, artifacts, artifact_files, policy_file, dist, last,
                       clock, key_vars>>

\* the caller has the result of the call
can_export_return ==
    /\ evaluation.pc = "done"
    /\ evaluation' = NoEvaluation
    /\ UNCHANGED <<cli_vars, key_vars>>

\* what another process stores as the signature of a sign event
ConcurrentSignatures(artifact_hash) ==
    {sign_bytes(artifact_hash, LocalKey, 1), MalformedHex}

\* another process appends a sign event through db.insert_event: one INSERT
\* and its commit
append_concurrently(by, artifact_hash, signature_hex) ==
    /\ Len(events) < MaxAppended
    /\ events' = insert_event(
           [ts |-> clock,
            action |-> "sign",
            by |-> by,
            artifact_hash |-> artifact_hash,
            artifact_signature |-> signature_hex,
            c2pa_assertion |-> "dummy_assertion"], events)
    /\ UNCHANGED <<artifacts, artifact_files, policy_file, keypair, dist, last,
                   clock, key_vars, evaluation>>

\* kairoscope ledger [--show]: prints get_all_events
ledger(show) ==
    /\ last' = [cmd |-> "ledger", exit |-> "ok"]
    /\ UNCHANGED <<events, artifacts, artifact_files, policy_file, keypair, dist,
                   clock, key_vars, evaluation>>

\* kairoscope policy config: prints load_policy_config
policy_config ==
    /\ last' = [cmd |-> "policy", exit |-> "ok"]
    /\ UNCHANGED <<events, artifacts, artifact_files, policy_file, keypair, dist,
                   clock, key_vars, evaluation>>

\* the assertion a writer of the artifact store attaches
AssertionData == "assertion_data_1"

\* a writer of the artifact store attaches an assertion to an existing record
\* through db.insert_artifact_metadata
update_artifact_metadata(artifact_hash, c2pa_assertion) ==
    LET metadata == get_artifact_metadata_by_hash(artifact_hash, artifacts)
        updated_metadata == [id |-> metadata.id, kind |-> metadata.kind,
                             uri |-> metadata.uri, hash |-> metadata.hash,
                             c2pa_assertion |-> c2pa_assertion]
    IN  /\ metadata # NoRow
        /\ "c2pa_assertion" \notin DOMAIN metadata
        /\ artifacts' = insert_artifact_metadata(updated_metadata, artifacts)
        /\ UNCHANGED <<events, artifact_files, policy_file, keypair, dist, last,
                       clock, key_vars, evaluation>>

\* the wall clock shows another instant (it can be set back)
tick(t) ==
    /\ t # clock
    /\ clock' = t
    /\ UNCHANGED <<events, artifacts, artifact_files, policy_file, keypair, dist,
                   last, key_vars, evaluation>>

Timestamps == 1..MaxClock

Next ==
    \/ \E content_hash \in Hashes : capture(content_hash)
    \/ \E artifact_hash \in Hashes : sign(artifact_hash)
    \/ \E sbom \in BOOLEAN, slsa \in BOOLEAN, sbom_ok \in BOOLEAN :
          export(sbom, slsa, sbom_ok)
    \/ \E by \in Fingerprints, artifact_hash \in Hashes, signature_hex \in Signatures :
          attest(clock, by, artifact_hash, signature_hex)

Spec == Init /\ [][Next]_vars

\* the ledgers that captures, attestors and plain exports (no --sbom, no --slsa)
\* build: the histories the policy evaluator is checked on
NextPolicy ==
    \/ \E content_hash \in Hashes : capture(content_hash)
    \/ \E by \in Fingerprints, artifact_hash \in Hashes, signature_hex \in Signatures :
          attest(clock, by, artifact_hash, signature_hex)
    \/ export(FALSE, FALSE, TRUE)

SpecPolicy == Init /\ [][NextPolicy]_vars

\* the commands alone, with the artifact store's other writer: no attestor
\* appends to the ledger
NextCli ==
    \/ \E content_hash \in Hashes : capture(content_hash)
    \/ \E artifact_hash \in Hashes : sign(artifact_hash)
    \/ \E sbom \in BOOLEAN, slsa \in BOOLEAN, sbom_ok \in BOOLEAN :
          export(sbom, slsa, sbom_ok)
    \/ \E show \in BOOLEAN : ledger(show)
    \/ policy_config
    \/ \E artifact_hash \in Hashes : update_artifact_metadata(artifact_hash, AssertionData)

SpecCli == Init /\ [][NextCli]_vars

\* the ledger under a moving clock: commands, readers, the local attestor and
\* the artifact store's other writer
NextLedger ==
    \/ \E content_hash \in Hashes : capture(content_hash)
    \/ \E artifact_hash \in Hashes : sign(artifact_hash)
    \/ export(FALSE, FALSE, TRUE)
    \/ \E ts \in Timestamps, artifact_hash \in Hashes :
          attest(ts, LocalFp, artifact_hash, sign_bytes(artifact_hash, LocalKey, 1))
    \/ \E show \in BOOLEAN : ledger(show)
    \/ policy_config
    \/ \E artifact_hash \in Hashes : update_artifact_metadata(artifact_hash, AssertionData)
    \/ \E t \in Timestamps : tick(t)

\* an empty working directory without policy.yaml
InitLedger ==
    /\ events = <<>>
    /\ artifacts = <<>>
    /\ artifact_files = {}
    /\ policy_file = NoFile
    /\ keypair = NoKey
    /\ dist = [tarball |-> NoFile, checksums |-> NoFile, sbom |-> NoFile, slsa |-> NoFile]
    /\ last = [cmd |-> "none", exit |-> "ok"]
    /\ clock \in Timestamps
    /\ InitKeys
    /\ evaluation = NoEvaluation

SpecLedger == InitLedger /\ [][NextLedger]_vars

\* the ledgers of SpecPolicy with attestors that also store a string that is
\* no hex
NextHex ==
    \/ \E content_hash \in Hashes : capture(content_hash)
    \/ \E by \in Fingerprints, artifact_hash \in Hashes,
          signature_hex \in Signatures \cup {MalformedHex} :
          attest(clock, by, artifact_hash, signature_hex)
    \/ export(FALSE, FALSE, TRUE)

SpecHex == Init /\ [][NextHex]_vars

\* the commands with the runs of capture that a storage fault ends, and the
\* local attestor
NextFaults ==
    \/ \E content_hash \in Hashes : capture(content_hash)
    \/ \E content_hash \in Hashes : capture_interrupted(content_hash)
    \/ \E artifact_hash \in Hashes : sign(artifact_hash)
    \/ \E sbom \in BOOLEAN, slsa \in BOOLEAN, sbom_ok \in BOOLEAN :
          export(sbom, slsa, sbom_ok)
    \/ \E artifact_hash \in Hashes :
          attest(clock, LocalFp, artifact_hash, sign_bytes(artifact_hash, LocalKey, 1))

SpecFaults == InitLedger /\ [][NextFaults]_vars

\* calls of can_export with other processes that append to the ledger
NextConcurrent ==
    \/ \E artifact_hashes \in TargetLists : can_export_call(artifact_hashes)
    \/ can_export_rule
    \/ can_export_return
    \/ \E by \in Fingerprints, artifact_hash \in Hashes :
          \E signature_hex \in ConcurrentSignatures(artifact_hash) :
              append_concurrently(by, artifact_hash, signature_hex)

SpecConcurrent == Init /\ [][NextConcurrent]_vars

\* the key managers alone, on a working directory the commands have not touched
InitKeyManagers ==
    /\ events = <<>>
    /\ artifacts = <<>>
    /\ artifact_files = {}
    /\ policy_file = NoFile
    /\ keypair = NoKey
    /\ dist = [tarball |-> NoFile, checksums |-> NoFile, sbom |-> NoFile, slsa |-> NoFile]
    /\ last = [cmd |-> "none", exit |-> "ok"]
    /\ clock = 1
    /\ InitKeys
    /\ evaluation = NoEvaluation

NextKeys ==
    \/ \E i \in Instances : FileKeyBackend_new(i)
    \/ \E i \in Instances : FileKeyBackend_generate_key_pair(i)
    \/ \E i \in Instances, key_id \in KeyIds :
          FileKeyBackend_get_public_key_fingerprint(i, key_id)
    \/ \E i \in Instances : FileKeyBackend_list_keys(i)
    \/ \E i \in Instances, key_id \in KeyIds : FileKeyBackend_delete_key(i, key_id)
    \/ \E tpm_ok \in BOOLEAN : TpmKeyBackend_generate_key_pair(tpm_ok)
    \/ \E key_id \in KeyIds, tpm_ok \in BOOLEAN :
          TpmKeyBackend_get_public_key_fingerprint(key_id, tpm_ok)
    \/ \E tpm_ok \in BOOLEAN : TpmKeyBackend_list_keys(tpm_ok)
    \/ \E key_id \in KeyIds, tpm_ok \in BOOLEAN : TpmKeyBackend_delete_key(key_id, tpm_ok)

SpecKeys == InitKeyManagers /\ [][NextKeys]_vars

\* signatures over artifact hashes a caller of provenance.py can pass
ProvenanceSignatures ==
    {sign_bytes(data, LocalKey, k) : data \in Hashes, k \in Nonces}
    \cup {sign_bytes("H1", ForeignKey, 1), truncated(sign_bytes("H1", LocalKey, 1)),
          EmptySignature, DummySignature}

\* the instance of the file backend that signs and verifies
Signers == {"a"}

\* the key managers and provenance.py with their signing and verifying calls
NextSign ==
    \/ \E i \in Instances : FileKeyBackend_new(i)
    \/ \E i \in Instances : FileKeyBackend_generate_key_pair(i)
    \/ \E i \in Signers, key_id \in KeyIds : FileKeyBackend_get_public_key_pem(i, key_id)
    \/ \E i \in Signers, key_id \in KeyIds :
          FileKeyBackend_get_public_key_fingerprint(i, key_id)
    \/ \E i \in Signers, key_id \in KeyIds, digest \in Digests, k \in Nonces :
          FileKeyBackend_sign_digest(i, key_id, digest, k)
    \/ \E i \in Signers, key_id \in KeyIds, signature \in SignatureBytes,
          digest \in Digests :
          FileKeyBackend_verify_signature(i, key_id, signature, digest)
    \/ \E i \in Signers, key_id \in KeyIds : FileKeyBackend_get_algorithm(i, key_id)
    \/ \E i \in Instances, key_id \in KeyIds : FileKeyBackend_delete_key(i, key_id)
    \/ \E tpm_ok \in BOOLEAN : TpmKeyBackend_generate_key_pair(tpm_ok)
    \/ \E key_id \in KeyIds, digest \in Digests, k \in Nonces, fails \in SignFailures :
          TpmKeyBackend_sign_digest(key_id, digest, k, fails)
    \/ \E key_id \in KeyIds, signature \in SignatureBytes, digest \in Digests,
          tpm_ok \in BOOLEAN :
          TpmKeyBackend_verify_signature(key_id, signature, digest, tpm_ok)
    \/ \E key_id \in KeyIds, tpm_ok \in BOOLEAN : TpmKeyBackend_delete_key(key_id, tpm_ok)
    \/ \E data \in Hashes, k \in Nonces : provenance_sign_bytes(data, k)
    \/ \E signature \in ProvenanceSignatures, data \in Hashes :
          provenance_verify_signature(signature, data)
    \/ \E artifact_hash \in Hashes, signature_hex \in ProvenanceSignatures :
          provenance_create_assertion(artifact_hash, signature_hex)

SpecSign == InitKeyManagers /\ [][NextSign]_vars

\* the file backend and provenance.py alone
NextFileSign ==
    \/ \E i \in Instances : FileKeyBackend_new(i)
    \/ \E i \in Instances : FileKeyBackend_generate_key_pair(i)
    \/ \E i \in Signers, key_id \in KeyIds : FileKeyBackend_get_public_key_pem(i, key_id)
    \/ \E i \in Signers, key_id \in KeyIds :
          FileKeyBackend_get_public_key_fingerprint(i, key_id)
    \/ \E i \in Signers, key_id \in KeyIds, digest \in Digests, k \in Nonces :
          FileKeyBackend_sign_digest(i, key_id, digest, k)
    \/ \E i \in Signers, key_id \in KeyIds, signature \in SignatureBytes,
          digest \in Digests :
          FileKeyBackend_verify_signature(i, key_id, signature, digest)
    \/ \E i \in Signers, key_id \in KeyIds : FileKeyBackend_get_algorithm(i, key_id)
    \/ \E i \in Instances, key_id \in KeyIds : FileKeyBackend_delete_key(i, key_id)
    \/ \E data \in Hashes, k \in Nonces : provenance_sign_bytes(data, k)
    \/ \E signature \in ProvenanceSignatures, data \in Hashes :
          provenance_verify_signature(signature, data)
    \/ \E artifact_hash \in Hashes, signature_hex \in ProvenanceSignatures :
          provenance_create_assertion(artifact_hash, signature_hex)

SpecFileSign == InitKeyManagers /\ [][NextFileSign]_vars

\* the hardware backend alone
NextTpm ==
    \/ \E tpm_ok \in BOOLEAN : TpmKeyBackend_generate_key_pair(tpm_ok)
    \/ \E key_id \in KeyIds, tpm_ok \in BOOLEAN :
          TpmKeyBackend_get_public_key_fingerprint(key_id, tpm_ok)
    \/ \E tpm_ok \in BOOLEAN : TpmKeyBackend_list_keys(tpm_ok)
    \/ \E key_id \in KeyIds, digest \in Digests, k \in Nonces, fails \in SignFailures :
          TpmKeyBackend_sign_digest(key_id, digest, k, fails)
    \/ \E key_id \in KeyIds, signature \in SignatureBytes, digest \in Digests,
          tpm_ok \in BOOLEAN :
          TpmKeyBackend_verify_signature(key_id, signature, digest, tpm_ok)
    \/ \E key_id \in KeyIds, tpm_ok \in BOOLEAN : TpmKeyBackend_delete_key(key_id, tpm_ok)

SpecTpm == InitKeyManagers /\ [][NextTpm]_vars

---------------------------------------------------------------------------
(* Notions the properties are stated in *)

\* the key the evaluator verifies with
VerificationKey == get_public_key(keypair)

\* the stored signature of a sign event verifies against its stored hash
Verifies(event) ==
    /\ event.action = "sign"
    /\ event.artifact_signature.signer = VerificationKey
    /\ event.artifact_signature.msg = event.artifact_hash

\* a sign event whose stored signature does not verify
Tampered(event) == event.action = "sign" /\ ~Verifies(event)

\* positions of the verified sign events on hash h in the ledger evs
VerifiedSignEvents(evs, h) ==
    {i \in DOMAIN evs : Verifies(evs[i]) /\ evs[i].artifact_hash = h}

NotTampered(event) == ~Tampered(event)

\* the ledger without its tampered sign events
WithoutTampered(evs) == SelectSeq(evs, NotTampered)

AttestorLists == {r.attestors : r \in WellFormedThresholdRules}

IsExportStep ==
    /\ Len(events') = Len(events) + 1
    /\ events'[Len(events')].action = "export"

---------------------------------------------------------------------------
(* C1 (export gate): an export event is appended only by a step in which     *)
(* can_export admitted the full list of hashes of the artifact store, which  *)
(* is the list the event records; and under the default policy every hash    *)
(* in an export event's artifacts_exported has a sign event earlier in the   *)
(* ledger whose stored signature verifies.                                   *)
C1_DefaultPolicyExportsSigned ==
    policy_file = NoFile =>
        \A i \in DOMAIN events :
            events[i].action = "export" =>
                \A x \in DOMAIN events[i].artifacts_exported :
                    \E j \in 1..(i - 1) :
                        /\ Verifies(events[j])
                        /\ events[j].artifact_hash = events[i].artifacts_exported[x]

C1_ExportStepAdmitted ==
    IsExportStep =>
        /\ get_all_artifact_hashes(artifacts) # <<>>
        /\ can_export(get_all_artifact_hashes(artifacts), policy_file, events, keypair)
        /\ events'[Len(events')].artifacts_exported = get_all_artifact_hashes(artifacts)

C1_ExportGate == [](C1_DefaultPolicyExportsSigned) /\ [][C1_ExportStepAdmitted]_vars

C1_Witness ==
    /\ policy_file = NoFile
    /\ last = [cmd |-> "export", exit |-> "ok"]
    /\ \E i \in DOMAIN events : events[i].action = "export"

---------------------------------------------------------------------------
(* C2 (all-or-nothing): if one hash of the target list fails some rule when  *)
(* evaluated alone, the whole list is denied, by that rule and by            *)
(* can_export, whatever the other hashes do.                                 *)
RulesOf(pf, category) == Get(load_policy_config(pf), category, <<>>)

FailsSomeRule(h, pf) ==
    \/ \E r \in DOMAIN RulesOf(pf, "existential_rules") :
          ~check_existential_rule(<<h>>, RulesOf(pf, "existential_rules")[r],
                                  events, keypair)
    \/ \E r \in DOMAIN RulesOf(pf, "universal_rules") :
          ~check_universal_rule(<<h>>, RulesOf(pf, "universal_rules")[r],
                                events, keypair)
    \/ \E r \in DOMAIN RulesOf(pf, "threshold_rules") :
          ~check_threshold_rule(<<h>>, RulesOf(pf, "threshold_rules")[r],
                                events, keypair)

C2_AllOrNothing ==
    \A S \in TargetLists : \A i \in DOMAIN S :
        /\ FailsSomeRule(S[i], policy_file)
              => ~can_export(S, policy_file, events, keypair)
        /\ Len(S) > 1 =>
              /\ \A rule \in ExistentialRules :
                    ~check_existential_rule(<<S[i]>>, rule, events, keypair)
                        => ~check_existential_rule(S, rule, events, keypair)
              /\ \A rule \in UniversalRules :
                    ~check_universal_rule(<<S[i]>>, rule, events, keypair)
                        => ~check_universal_rule(S, rule, events, keypair)
              /\ \A rule \in ThresholdRules :
                    ~check_threshold_rule(<<S[i]>>, rule, events, keypair)
                        => ~check_threshold_rule(S, rule, events, keypair)

\* H1 signed once, H2 never signed, both captured, and export was refused
C2_Witness ==
    /\ policy_file = NoFile
    /\ \E i \in DOMAIN artifacts : artifacts[i].hash = "H1"
    /\ \E i \in DOMAIN artifacts : artifacts[i].hash = "H2"
    /\ Cardinality(VerifiedSignEvents(events, "H1")) = 1
    /\ VerifiedSignEvents(events, "H2") = {}
    /\ can_export(<<"H1">>, policy_file, events, keypair)
    /\ ~can_export(<<"H1", "H2">>, policy_file, events, keypair)
    /\ last = [cmd |-> "export", exit |-> "abort"]

---------------------------------------------------------------------------
(* C3 (tampered event rejection): a sign event whose stored signature does   *)
(* not verify against its stored hash adds nothing to witness_count, to      *)
(* signed_set or to any attestor's attestations, so every threshold rule     *)
(* decides as if the event were not in the ledger; and the event stays in    *)
(* the ledger as it is.                                                      *)
C3_CountsIgnoreTampered ==
    LET clean == WithoutTampered(events)
        pk == VerificationKey
    IN  /\ artifact_signatures_count(events, pk) = artifact_signatures_count(clean, pk)
        /\ signed_artifacts(events, pk) = signed_artifacts(clean, pk)
        /\ \A L \in AttestorLists :
              artifact_attestations_count(events, L, pk)
                  = artifact_attestations_count(clean, L, pk)
        /\ \A rule \in WellFormedThresholdRules : \A S \in TargetLists :
              check_threshold_rule(S, rule, events, keypair)
                  = check_threshold_rule(S, rule, clean, keypair)
        /\ \A h \in Hashes : \A a \in Fingerprints :
              (\A i \in DOMAIN events :
                  (events[i].action = "sign" /\ events[i].by = a
                   /\ events[i].artifact_hash = h) => Tampered(events[i]))
              => \A L \in AttestorLists :
                     artifact_attestations_count(events, L, pk)[h][a] = 0

C3_TamperedStays ==
    \A i \in DOMAIN events :
        Tampered(events[i]) => (i \in DOMAIN events' /\ events'[i] = events[i])

C3_TamperedRejected == [](C3_CountsIgnoreTampered) /\ [][C3_TamperedStays]_vars

\* the second attestor's sign event carries a signature that does not verify,
\* the first attestor's does, and export under the 2-of-2 rule was refused
C3_Witness ==
    /\ policy_file = PolicyTwoOfTwo
    /\ \E i \in DOMAIN artifacts : artifacts[i].hash = "H1"
    /\ \E i \in DOMAIN events :
          Verifies(events[i]) /\ events[i].by = LocalFp
          /\ events[i].artifact_hash = "H1"
    /\ \E i \in DOMAIN events :
          Tampered(events[i]) /\ events[i].by = ForeignFp
          /\ events[i].artifact_hash = "H1"
    /\ last = [cmd |-> "export", exit |-> "abort"]

---------------------------------------------------------------------------
(* C4 (signer's key): a sign event counts toward witness_count, signed_set   *)
(* or an attestor's attestations only if its signature verifies under the    *)
(* key whose fingerprint is the event's `by`; so the events that do not      *)
(* verify under the key they name add nothing to any of the three.           *)
\* the key a fingerprint names
key_of_fingerprint(fp) == CHOOSE k \in Keys : fingerprint_of(k) = fp

VerifiesUnderNamedKey(event) ==
    /\ event.action = "sign"
    /\ event.artifact_signature.signer = key_of_fingerprint(event.by)
    /\ event.artifact_signature.msg = event.artifact_hash

NamedKeyOrNoSign(event) == event.action = "sign" => VerifiesUnderNamedKey(event)

C4_SignerKeyVerified ==
    LET genuine == SelectSeq(events, NamedKeyOrNoSign)
        pk == VerificationKey
    IN  /\ artifact_signatures_count(events, pk) = artifact_signatures_count(genuine, pk)
        /\ signed_artifacts(events, pk) = signed_artifacts(genuine, pk)
        /\ \A L \in AttestorLists :
              artifact_attestations_count(events, L, pk)
                  = artifact_attestations_count(genuine, L, pk)

---------------------------------------------------------------------------
(* C5 (all rules must pass): can_export admits exactly when every rule of    *)
(* every category passes; a category that is empty or absent passes, and one *)
(* failing rule denies.                                                      *)
EveryRulePasses(S, pf) ==
    /\ \A r \in DOMAIN RulesOf(pf, "existential_rules") :
          check_existential_rule(S, RulesOf(pf, "existential_rules")[r], events, keypair)
    /\ \A r \in DOMAIN RulesOf(pf, "universal_rules") :
          check_universal_rule(S, RulesOf(pf, "universal_rules")[r], events, keypair)
    /\ \A r \in DOMAIN RulesOf(pf, "threshold_rules") :
          check_threshold_rule(S, RulesOf(pf, "threshold_rules")[r], events, keypair)

C5_AllRulesMustPass ==
    \A S \in TargetLists :
        can_export(S, policy_file, events, keypair) = EveryRulePasses(S, policy_file)

\* the existential rule passes, the threshold rule alone fails, export refused
C5_Witness ==
    /\ policy_file = PolicyTwoOfTwo
    /\ get_all_artifact_hashes(artifacts) = <<"H1">>
    /\ check_existential_rule(<<"H1">>, PolicyTwoOfTwo.existential_rules[1],
                              events, keypair)
    /\ ~check_threshold_rule(<<"H1">>, PolicyTwoOfTwo.threshold_rules[1],
                             events, keypair)
    /\ last = [cmd |-> "export", exit |-> "abort"]

---------------------------------------------------------------------------
(* C6 (existential rule): the rule passes iff every target hash has at least *)
(* min_witnesses verified sign events, each sign event counting once, also   *)
(* when one signer signed several times.                                     *)
C6_ExistentialRule ==
    \A rule \in ExistentialRules : \A S \in TargetLists :
        check_existential_rule(S, rule, events, keypair)
            = \A i \in DOMAIN S :
                  Cardinality(VerifiedSignEvents(events, S[i]))
                      >= Get(rule, "min_witnesses", 1)

\* min_witnesses = 2 is met by one signer signing H1 twice, and export passed
C6_Witness ==
    /\ policy_file = PolicyTwoExistential
    /\ \E i \in DOMAIN events : \E j \in DOMAIN events :
          /\ i < j
          /\ VerifiedSignEvents(events, "H1") = {i, j}
          /\ events[i].by = events[j].by
          /\ \E x \in DOMAIN events :
                x > j /\ events[x].action = "export"
                /\ events[x].artifacts_exported = <<"H1">>
    /\ ~check_existential_rule(<<"H1">>, [name |-> "e", min_witnesses |-> 2],
                               SubSeq(events, 1, 2), keypair)

---------------------------------------------------------------------------
(* C7 (threshold rule): the rule passes iff every target hash has at least k *)
(* distinct allowlisted attestors with a verified sign event on it; repeated *)
(* signings by one attestor count once, signers off the allowlist not at all *)
Allowlisted(attestors) == {attestors[j] : j \in DOMAIN attestors} \ {None}

DistinctVerifiedAttestors(evs, attestors, h) ==
    {a \in Allowlisted(attestors) :
        \E i \in VerifiedSignEvents(evs, h) : evs[i].by = a}

ThresholdMet(S, rule) ==
    \A i \in DOMAIN S :
        Cardinality(DistinctVerifiedAttestors(events, rule.attestors, S[i])) >= rule.k

C7_ThresholdDistinctAttestors ==
    \A rule \in WellFormedThresholdRules : \A S \in TargetLists :
        check_threshold_rule(S, rule, events, keypair) = ThresholdMet(S, rule)

\* the same statement over the allowlists that name no attestor twice
NoDuplicates(attestors) ==
    \A i \in DOMAIN attestors : \A j \in DOMAIN attestors :
        attestors[i] = attestors[j] => i = j

ThresholdDistinctOnProperAllowlists ==
    \A rule \in WellFormedThresholdRules : \A S \in TargetLists :
        NoDuplicates(rule.attestors)
            => check_threshold_rule(S, rule, events, keypair) = ThresholdMet(S, rule)

---------------------------------------------------------------------------
(* C8 (malformed threshold rule): a threshold rule without k, without n or   *)
(* without attestors denies every target list, the empty one included, on    *)
(* every ledger; a policy that holds such a rule never admits, so no export  *)
(* event is ever appended under it.                                          *)
HasMalformedThreshold(pf) ==
    \E r \in DOMAIN RulesOf(pf, "threshold_rules") :
        RulesOf(pf, "threshold_rules")[r] \in MalformedThresholdRules

C8_MalformedThresholdDenies ==
    /\ \A rule \in MalformedThresholdRules : \A S \in TargetLists :
          /\ ~check_threshold_rule(S, rule, events, keypair)
          /\ ~can_export(S, [threshold_rules |-> <<rule>>], events, keypair)
    /\ HasMalformedThreshold(policy_file) =>
          /\ \A S \in TargetLists : ~can_export(S, policy_file, events, keypair)
          /\ \A i \in DOMAIN events : events[i].action # "export"

\* every other rule passes for the one captured artifact, and export was refused
C8_Witness ==
    /\ policy_file = PolicyMalformedThreshold
    /\ get_all_artifact_hashes(artifacts) = <<"H1">>
    /\ VerifiedSignEvents(events, "H1") # {}
    /\ check_existential_rule(<<"H1">>, PolicyMalformedThreshold.existential_rules[1],
                              events, keypair)
    /\ last = [cmd |-> "export", exit |-> "abort"]

---------------------------------------------------------------------------
(* C9 (ledger validator fails closed): a universal rule that requires        *)
(* 'ledger' denies every non-empty target list, also when every target hash  *)
(* has a verified signature and the other rules pass.                        *)
RequiresLedger(rule) ==
    InList("ledger", Get(rule, "required_validators", <<>>))

C9_LedgerFailsClosed ==
    /\ \A rule \in UniversalRules : \A S \in TargetLists :
          (RequiresLedger(rule) /\ S # <<>>) =>
              /\ ~check_universal_rule(S, rule, events, keypair)
              /\ ~can_export(S, [universal_rules |-> <<rule>>], events, keypair)
    /\ policy_file = PolicyLedger =>
          /\ \A S \in TargetLists :
                S # <<>> => ~can_export(S, policy_file, events, keypair)
          /\ \A i \in DOMAIN events : events[i].action # "export"

\* both captured artifacts carry a verified signature, and export was refused
C9_Witness ==
    /\ policy_file = PolicyLedger
    /\ Len(artifacts) = 2
    /\ \A h \in Hashes : VerifiedSignEvents(events, h) # {}
    /\ check_existential_rule(get_all_artifact_hashes(artifacts),
                              PolicyLedger.existential_rules[1], events, keypair)
    /\ last = [cmd |-> "export", exit |-> "abort"]

---------------------------------------------------------------------------
(* C10 (malformed universal rule): a universal rule without                  *)
(* required_validators denies every target list, and so does can_export      *)
(* under a policy that holds it.                                             *)
MalformedUniversalRule == [name |-> "u"]

C10_MalformedUniversalDenies ==
    \A S \in TargetLists :
        /\ ~check_universal_rule(S, MalformedUniversalRule, events, keypair)
        /\ policy_file = PolicyMalformedUniversal
              => ~can_export(S, policy_file, events, keypair)

\* what the evaluator does with such a rule: it passes on every ledger
MalformedUniversalPasses ==
    \A S \in TargetLists :
        check_universal_rule(S, MalformedUniversalRule, events, keypair)

---------------------------------------------------------------------------
(* C11 (default policy): without a policy file the policy is one existential *)
(* rule with min_witnesses = 1 and no universal or threshold rule, so        *)
(* can_export admits a target list iff each of its hashes has at least one   *)
(* verified sign event in the ledger.                                        *)
C11_DefaultPolicy ==
    LET policy == load_policy_config(NoFile)
    IN  /\ Len(policy.existential_rules) = 1
        /\ policy.existential_rules[1].min_witnesses = 1
        /\ policy.universal_rules = <<>>
        /\ policy.threshold_rules = <<>>
        /\ \A S \in TargetLists :
              can_export(S, NoFile, events, keypair)
                  = \A i \in DOMAIN S : VerifiedSignEvents(events, S[i]) # {}
        /\ policy_file = NoFile =>
              \A i \in DOMAIN events :
                  events[i].action = "export" =>
                      \A x \in DOMAIN events[i].artifacts_exported :
                          VerifiedSignEvents(events, events[i].artifacts_exported[x]) # {}

\* two artifacts, one verified sign event on each, exported together
C11_Witness ==
    /\ policy_file = NoFile
    /\ \A h \in Hashes : Cardinality(VerifiedSignEvents(events, h)) = 1
    /\ \E i \in DOMAIN events :
          /\ events[i].action = "export"
          /\ Len(events[i].artifacts_exported) = 2
    /\ ~can_export(<<"H1", "H2">>, NoFile, SubSeq(events, 1, 3), keypair)

---------------------------------------------------------------------------
(* C12 (happy path): from an empty ledger and artifact store under the       *)
(* default policy, capture of H, sign of H and export each succeed; the      *)
(* ledger then reads capture(H), sign(H) with signature and assertion,       *)
(* export, in that order, the record of H carries the assertion and H is in  *)
(* the export event's artifacts_exported.                                    *)
\* the sign command on H, run when the ledger reads [capture(H)], succeeds
C12_SignSucceeds ==
    (/\ policy_file = NoFile
     /\ Len(events) = 1
     /\ events[1].action = "capture"
     /\ sign(events[1].artifact_hash))
    => /\ last' = [cmd |-> "sign", exit |-> "ok"]
       /\ Len(events') = 2
       /\ events'[1] = events[1]
       /\ events'[2].action = "sign"
       /\ events'[2].artifact_hash = events[1].artifact_hash
       /\ "artifact_signature" \in DOMAIN events'[2]
       /\ "c2pa_assertion" \in DOMAIN events'[2]
       /\ "c2pa_assertion" \in
             DOMAIN get_artifact_metadata_by_hash(events[1].artifact_hash, artifacts')

\* the export command, run when the ledger reads [capture(H), sign(H)] and the
\* SBOM tool works, succeeds
C12_ExportSucceeds ==
    (/\ policy_file = NoFile
     /\ Len(events) = 2
     /\ events[1].action = "capture"
     /\ events[2].action = "sign"
     /\ events[2].artifact_hash = events[1].artifact_hash
     /\ get_all_artifact_hashes(artifacts) = <<events[1].artifact_hash>>
     /\ \E sbom \in BOOLEAN, slsa \in BOOLEAN : export(sbom, slsa, TRUE))
    => /\ last' = [cmd |-> "export", exit |-> "ok"]
       /\ Len(events') = 3
       /\ SubSeq(events', 1, 2) = events
       /\ events'[3].action = "export"
       /\ InList(events[1].artifact_hash, events'[3].artifacts_exported)

C12_HappyPath == [][C12_SignSucceeds /\ C12_ExportSucceeds]_vars

---------------------------------------------------------------------------
(* C13 (blocked export): when can_export denies, the export command aborts   *)
(* with a failure, writes no tarball and no checksums file and appends no    *)
(* event: ledger, artifact store and dist directory are as before.           *)
C13_BlockedStep ==
    (/\ last'.cmd = "export"
     /\ \E sbom \in BOOLEAN, slsa \in BOOLEAN, sbom_ok \in BOOLEAN :
           export(sbom, slsa, sbom_ok)
     /\ get_all_artifact_hashes(artifacts) # <<>>
     /\ ~can_export(get_all_artifact_hashes(artifacts), policy_file, events, keypair))
    => /\ last' = [cmd |-> "export", exit |-> "abort"]
       /\ events' = events
       /\ artifacts' = artifacts
       /\ artifact_files' = artifact_files
       /\ dist' = dist

C13_BlockedExportChangesNothing == [][C13_BlockedStep]_vars

\* an unsigned artifact was captured under the default policy, export was
\* refused, and the dist directory is still empty
C13_Witness ==
    /\ policy_file = NoFile
    /\ Len(artifacts) = 1
    /\ Len(events) = 1
    /\ last = [cmd |-> "export", exit |-> "abort"]
    /\ dist.tarball = NoFile
    /\ dist.checksums = NoFile

---------------------------------------------------------------------------
(* C14 (capture is idempotent): capturing content whose hash is already in   *)
(* the artifact store succeeds, appends no event and leaves the record, with *)
(* any assertion attached to it, as it is; so the ledger never holds more    *)
(* than one capture event per artifact hash.                                 *)
CaptureEvents(evs, h) ==
    {i \in DOMAIN evs : evs[i].action = "capture" /\ evs[i].artifact_hash = h}

C14_RecapturedStep ==
    \A h \in Hashes :
        (get_artifact_metadata_by_hash(h, artifacts) # NoRow /\ capture(h))
        => /\ last' = [cmd |-> "capture", exit |-> Already]
           /\ events' = events
           /\ artifacts' = artifacts
           /\ artifact_files' = artifact_files

C14_OneCapturePerHash ==
    \A h \in Hashes : Cardinality(CaptureEvents(events, h)) <= 1

C14_CaptureIdempotent == [](C14_OneCapturePerHash) /\ [][C14_RecapturedStep]_vars

\* H1 was captured again after an assertion had been attached to its record
C14_Witness ==
    /\ last = [cmd |-> "capture", exit |-> Already]
    /\ "c2pa_assertion" \in DOMAIN get_artifact_metadata_by_hash("H1", artifacts)
    /\ Cardinality(CaptureEvents(events, "H1")) = 1
    /\ get_all_artifact_hashes(artifacts) = <<"H1">>
    /\ artifact_files = {"H1"}

---------------------------------------------------------------------------
(* C15 (sign is idempotent): the sign command on an artifact whose record    *)
(* already carries an assertion succeeds, appends no event and leaves the    *)
(* stored assertion as it is; so capture, sign and export commands never     *)
(* leave more than one sign event per artifact hash in the ledger.           *)
SignEvents(evs, h) ==
    {i \in DOMAIN evs : evs[i].action = "sign" /\ evs[i].artifact_hash = h}

HasAssertion(h, arts) ==
    "c2pa_assertion" \in DOMAIN get_artifact_metadata_by_hash(h, arts)

C15_ResignedStep ==
    \A h \in Hashes :
        (HasAssertion(h, artifacts) /\ sign(h))
        => /\ last' = [cmd |-> "sign", exit |-> Already]
           /\ events' = events
           /\ artifacts' = artifacts

\* a sign step appends at most one event, and only for a record without assertion
C15_SignAppendsOnce ==
    \A h \in Hashes :
        (sign(h) /\ events' # events)
        => /\ ~HasAssertion(h, artifacts)
           /\ HasAssertion(h, artifacts')
           /\ Len(events') = Len(events) + 1

C15_OneSignPerHash ==
    \A h \in Hashes : Cardinality(SignEvents(events, h)) <= 1

C15_SignIdempotent ==
    [](C15_OneSignPerHash) /\ [][C15_ResignedStep /\ C15_SignAppendsOnce]_vars

\* the sign command ran on H1 whose record carries an assertion
C15_Witness ==
    /\ last = [cmd |-> "sign", exit |-> Already]
    /\ get_all_artifact_hashes(artifacts) = <<"H1">>
    /\ get_artifact_metadata_by_hash("H1", artifacts).c2pa_assertion = AssertionData
    /\ SignEvents(events, "H1") = {}

---------------------------------------------------------------------------
(* C16 (append-only history): no capture, sign, export, ledger-show or       *)
(* policy-evaluation step, and no append by an attestor, updates or deletes  *)
(* an event: every row of the events table stays as it is, every event       *)
(* get_all_events returned is returned again with the same content, and the  *)
(* number of events never decreases.                                         *)
\* a is b with some elements left out
RECURSIVE IsSubsequence(_, _)
IsSubsequence(a, b) ==
    IF a = <<>> THEN TRUE
    ELSE IF b = <<>> THEN FALSE
    ELSE IF Head(a) = Head(b) THEN IsSubsequence(Tail(a), Tail(b))
    ELSE IsSubsequence(a, Tail(b))

C16_RowsKept ==
    /\ Len(events') >= Len(events)
    /\ \A i \in DOMAIN events : events'[i] = events[i]
    /\ Len(get_all_events(events')) >= Len(get_all_events(events))
    /\ IsSubsequence(get_all_events(events), get_all_events(events'))

C16_AppendOnly == [][C16_RowsKept]_vars

\* events were appended under a clock that was set back, every kind of them is
\* in the ledger, and the ledger was read last
C16_Witness ==
    /\ last = [cmd |-> "ledger", exit |-> "ok"]
    /\ get_all_events(events) # events
    /\ \E i \in DOMAIN events : events[i].action = "capture"
    /\ \E i \in DOMAIN events : events[i].action = "sign"
    /\ \E i \in DOMAIN events : events[i].action = "export"

---------------------------------------------------------------------------
(* C17 (ledger order): get_all_events returns every event once, in           *)
(* non-decreasing timestamp order, and events with equal timestamps in the   *)
(* order in which they were inserted; when all timestamps are equal the      *)
(* result is the insertion order.                                            *)
\* place of row r among the rows of evs ordered by (timestamp, rowid)
Rank(evs, r) ==
    1 + Cardinality({q \in DOMAIN evs :
            \/ evs[q].ts < evs[r].ts
            \/ (evs[q].ts = evs[r].ts /\ q < r)})

ByTimestampThenInsertion(evs) ==
    [i \in DOMAIN evs |-> evs[CHOOSE r \in DOMAIN evs : Rank(evs, r) = i]]

---------------------------------------------------------------------------
(* C18 (event store is the sole source of truth): with the event history,    *)
(* the policy and the verification key fixed, can_export decides the same    *)
(* whatever the artifact store holds; a hash whose record carries an         *)
(* assertion but which has no verified sign event is denied, and a hash with *)
(* a verified sign event and no assertion on its record is admitted.         *)
C18_StoreChangeKeepsDecision ==
    (/\ artifacts' # artifacts
     /\ events' = events
     /\ keypair' = keypair)
    => \A pf \in {NoFile, PolicyTwoOfTwo, PolicyForeignAttestor} :
           \A S \in TargetLists :
               can_export(S, pf, events', keypair') = can_export(S, pf, events, keypair)

C18_LedgerDecides ==
    \A h \in Hashes :
        /\ (HasAssertion(h, artifacts) /\ VerifiedSignEvents(get_all_events(events), h) = {})
              => ~can_export(<<h>>, NoFile, events, keypair)
        /\ (~HasAssertion(h, artifacts) /\ VerifiedSignEvents(get_all_events(events), h) # {})
              => can_export(<<h>>, NoFile, events, keypair)

C18_EventStoreSoleTruth ==
    [](C18_LedgerDecides) /\ [][C18_StoreChangeKeepsDecision]_vars

\* H1 carries an assertion and has no sign event, H2 has a verified sign event
\* and no assertion: H2 alone is admitted, and the export of both was refused
C18_Witness ==
    /\ HasAssertion("H1", artifacts)
    /\ SignEvents(events, "H1") = {}
    /\ ~HasAssertion("H2", artifacts)
    /\ VerifiedSignEvents(events, "H2") # {}
    /\ can_export(<<"H2">>, policy_file, events, keypair)
    /\ ~can_export(<<"H1">>, policy_file, events, keypair)
    /\ last = [cmd |-> "export", exit |-> "abort"]

---------------------------------------------------------------------------
(* C19 (generate_key_pair is idempotent, file backend): the first call       *)
(* creates one key pair and writes it to the key directory; a later call, on *)
(* the same instance or on a new one over the same directory, returns the    *)
(* key_id and PEM of that key pair and neither creates nor overwrites key    *)
(* material, as long as the key is not deleted in between.                   *)
Loaded(i) == instances[i]._private_key # NoKey

\* every loaded instance holds the key of the key directory
InstancesHoldStoredKey ==
    \A i \in Instances : Loaded(i) => instances[i]._private_key = key_dir.key

KeyDeleted == key_dir.key # NoKey /\ key_dir'.key = NoKey

C19_GenerateStep ==
    \A i \in Instances :
        FileKeyBackend_generate_key_pair(i) =>
            LET existing == IF Loaded(i) THEN instances[i]._private_key ELSE key_dir.key
                returned == instances'[i]._private_key
            IN  /\ ret'.ok
                /\ ret'.value = [key_id |-> fingerprint_of(returned),
                                 public_key_pem |-> public_pem(returned)]
                /\ existing # NoKey =>
                      /\ returned = existing
                      /\ key_dir' = key_dir
                      /\ generated' = generated
                /\ existing = NoKey =>
                      /\ generated' = generated + 1
                      /\ returned \notin {instances[j]._private_key : j \in Instances}
                      /\ key_dir' = [key |-> returned, pub |-> returned]

\* without a deletion the stored key stays, and the instances keep holding it
C19_StoredKeyKept ==
    ~KeyDeleted =>
        /\ key_dir.key # NoKey => key_dir' = key_dir
        /\ InstancesHoldStoredKey => InstancesHoldStoredKey'

C19_GenerateIdempotent == [][C19_GenerateStep /\ C19_StoredKeyKept]_vars

\* one key pair was created; the second instance has just been handed the same
\* key pair by generate_key_pair
C19_Witness ==
    /\ generated = 1
    /\ key_dir.key = generated_key(1)
    /\ \A i \in Instances : instances[i]._private_key = key_dir.key
    /\ ret = Returned("generate_key_pair", "b",
                      [key_id |-> fingerprint_of(key_dir.key),
                       public_key_pem |-> public_pem(key_dir.key)])

---------------------------------------------------------------------------
(* C20 (KeyHandle invariant): in every reachable state the key_id a key      *)
(* backend holds, or has just returned from generate_key_pair, list_keys or  *)
(* get_public_key_fingerprint, is "sha256:" + hex(SHA256(DER(public key)))   *)
(* of the key the backend manages at that moment; a FileKeyBackend instance  *)
(* has _key_id set exactly when it has a private key loaded, and the two     *)
(* always match.                                                             *)
ManagedKey(backend) ==
    IF backend = "tpm" THEN tpm.persistent ELSE instances[backend]._private_key

C20_StoredKeyId ==
    \A i \in Instances :
        /\ instances[i]._key_id # None <=> instances[i]._private_key # NoKey
        /\ Loaded(i) =>
              instances[i]._key_id = "sha256:" \o instances[i]._private_key

C20_ReturnedKeyId ==
    ret.ok =>
        LET managed == ManagedKey(ret.backend)
        IN  /\ ret.op = "generate_key_pair" =>
                  /\ managed # NoKey
                  /\ ret.value = [key_id |-> "sha256:" \o managed,
                                  public_key_pem |-> public_pem(managed)]
            /\ ret.op = "get_public_key_fingerprint" =>
                  /\ managed # NoKey
                  /\ ret.value.key_id = "sha256:" \o managed
            /\ ret.op = "list_keys" =>
                  \A n \in 1..Len(ret.value) :
                      /\ managed # NoKey
                      /\ ret.value[n].id = "sha256:" \o managed
                      /\ ret.value[n].public_key_pem = public_pem(managed)

C20_KeyHandle == C20_StoredKeyId /\ C20_ReturnedKeyId

\* the key directory was emptied and filled again while instance "b" kept its
\* key: list_keys of "a" has just returned the id of the key "a" holds, and
\* each instance's _key_id is the fingerprint of its own key
C20_Witness ==
    /\ Loaded("a") /\ Loaded("b")
    /\ instances["a"]._private_key # instances["b"]._private_key
    /\ ret.op = "list_keys" /\ ret.backend = "a" /\ ret.ok
    /\ Len(ret.value) = 1
    /\ ret.value[1].id = instances["a"]._key_id
    /\ instances["a"]._key_id = fingerprint_of(instances["a"]._private_key)
    /\ instances["b"]._key_id = fingerprint_of(instances["b"]._private_key)

---------------------------------------------------------------------------
(* C21 (unknown key, file backend): get_public_key_pem,                      *)
(* get_public_key_fingerprint, sign_digest and get_algorithm, called with a  *)
(* key_id that is not the id of the key the instance manages, raise          *)
(* ValueError and hand out neither key data nor a signature.                 *)
KeyedCalls ==
    {"get_public_key_pem", "get_public_key_fingerprint", "sign_digest", "get_algorithm"}

C21_UnknownKeyFails ==
    (ret.backend \in Instances /\ ret.op \in KeyedCalls) =>
        (call.key_id # instances[ret.backend]._key_id =>
            /\ ~ret.ok
            /\ ret.value = "ValueError")

\* the instance holds the second key and sign_digest was asked for the id of
\* the first
C21_Witness ==
    /\ instances["a"]._private_key = generated_key(2)
    /\ call.key_id = fingerprint_of(generated_key(1))
    /\ ret.op = "sign_digest" /\ ret.backend = "a"
    /\ ~ret.ok /\ ret.value = "ValueError"

---------------------------------------------------------------------------
(* C22 (verify_signature never raises for a malformed signature): called     *)
(* with the id of the managed key and with signature bytes that are empty,   *)
(* truncated, of the wrong length or in another encoding than the verifier   *)
(* reads, verify_signature returns False: in FileKeyBackend, in              *)
(* TpmKeyBackend (the module answering) and in provenance.verify_signature.  *)
C22_File ==
    (/\ ret.op = "verify_signature"
     /\ ret.backend \in Instances
     /\ call.key_id = instances[ret.backend]._key_id
     /\ call.signature.enc # "der")
        => (ret.ok /\ ret.value = FALSE)

\* the one exception the hardware backend lets out is the RuntimeError of a
\* module that does not answer, whatever the signature
C22_Tpm ==
    (/\ ret.op = "verify_signature"
     /\ ret.backend = "tpm"
     /\ tpm.persistent # NoKey
     /\ call.key_id = fingerprint_of(tpm.persistent)
     /\ call.signature.enc # "raw")
        => \/ ret.ok /\ ret.value = FALSE
           \/ ~ret.ok /\ ret.value = "RuntimeError"

C22_Provenance ==
    (/\ ret.op = "verify_signature"
     /\ ret.backend = "provenance"
     /\ call.signature.enc # "der")
        => (ret.ok /\ ret.value = FALSE)

C22_VerifyNeverRaises == C22_File /\ C22_Tpm /\ C22_Provenance

\* the hardware backend was handed the empty string with the id of its key
C22_Witness ==
    /\ tpm.persistent # NoKey
    /\ call.key_id = fingerprint_of(tpm.persistent)
    /\ call.signature = EmptySignature
    /\ ret.op = "verify_signature" /\ ret.backend = "tpm"
    /\ ret.ok /\ ret.value = FALSE

---------------------------------------------------------------------------
(* C23 (verification soundness): a signature that sign_digest or sign_bytes  *)
(* has just returned for a payload verifies under the same key with that     *)
(* payload; with another payload it does not; and no bytes verify that are   *)
(* not a DER signature made by that key over the payload they are verified   *)
(* with.  ECDSA draws a nonce for every signature, so a second signature of  *)
(* the same payload differs from the first and verifies as well.             *)

\* a signing call has returned and the next call verifies with the same key
SignedThenVerified ==
    /\ ret.op \in {"sign_digest", "sign_bytes"}
    /\ ret.ok
    /\ ret'.op = "verify_signature"
    /\ ret'.ok
    /\ ret'.backend = ret.backend
    /\ call'.key_id = call.key_id
    /\ ret.backend \in Instances \cup {"provenance"}

C23_SoundStep ==
    SignedThenVerified =>
        LET signed == ret.value
            signature == call'.signature
        IN  /\ (signature = signed /\ call'.digest = call.digest) => ret'.value = TRUE
            /\ (signature = signed /\ call'.digest # call.digest) => ret'.value = FALSE
            /\ (\/ signature.enc # "der"
                \/ signature.signer # signed.signer
                \/ signature.msg # call'.digest) => ret'.value = FALSE

C23_VerificationSound == [][C23_SoundStep]_vars

\* the statement with "any different signature": only the signature that was
\* returned verifies
C23_OnlyReturnedSignatureVerifies ==
    [][SignedThenVerified =>
          (ret'.value = TRUE <=>
              (call'.signature = ret.value /\ call'.digest = call.digest))]_vars

\* instance "a" holds the first key and has verified a signature of that key
\* over "D1" with "D1"
C23_Witness ==
    /\ instances["a"]._private_key = generated_key(1)
    /\ call.signature = ecdsa_sign(generated_key(1), "D1", 1)
    /\ call.digest = "D1"
    /\ ret.op = "verify_signature" /\ ret.backend = "a"
    /\ ret.ok /\ ret.value = TRUE

---------------------------------------------------------------------------
(* C24 (delete_key is idempotent for an issued key): when delete_key(k) has  *)
(* succeeded on a backend and delete_key(k) is called on it again, the key   *)
(* being absent now, the second call returns without an error and changes    *)
(* nothing.                                                                   *)
DeletedThenDeletedAgain ==
    /\ ret.op = "delete_key"
    /\ ret.ok
    /\ ret'.op = "delete_key"
    /\ ret'.backend = ret.backend
    /\ call'.key_id = call.key_id

C24_DeleteIdempotent ==
    [][DeletedThenDeletedAgain =>
          /\ ret'.ok
          /\ key_dir' = key_dir
          /\ instances' = instances
          /\ tpm' = tpm]_vars

---------------------------------------------------------------------------
(* C25 (cross-backend interoperability): a signature that the hardware       *)
(* backend's sign_digest returns is in the encoding of the file backend's    *)
(* signatures, so that the file backend's verification, given the public key *)
(* of the hardware key and the digest that was signed, accepts it.           *)
C25_HardwareSignatureVerifies ==
    (ret.op = "sign_digest" /\ ret.backend = "tpm" /\ ret.ok) =>
        /\ ret.value.enc = "der"
        /\ ecdsa_verify(tpm.persistent, ret.value, call.digest)

---------------------------------------------------------------------------
(* C26 (sign_digest releases the transient key): whether the hardware        *)
(* backend's sign_digest returns or raises, the key it loaded into the       *)
(* module's transient area has been flushed, so the number of loaded         *)
(* transient objects is the same after the call as before it.                *)
C26_TransientFlushed ==
    [][(ret'.op = "sign_digest" /\ ret'.backend = "tpm") =>
          tpm'.transient = tpm.transient]_vars

---------------------------------------------------------------------------
(* C27 (assertion determinism): the assertion create_assertion returns is    *)
(* the text that building it again from the same field values gives, its     *)
(* members are in the sorted order of their keys whatever the order in which *)
(* the fields are supplied, and parsing it gives back the fields.            *)
KeyRank(key) == CHOOSE n \in DOMAIN SortedKeys : SortedKeys[n] = key

KeysSorted(text) ==
    \A m, n \in DOMAIN text : m < n => KeyRank(text[m][1]) < KeyRank(text[n][1])

Reordered(items, p) == [n \in DOMAIN items |-> items[p[n]]]

C27_AssertionDeterministic ==
    ret.op = "create_assertion" =>
        LET items == assertion_items(call.digest, call.signature, keypair)
            text == ret.value
            fields == json_loads(text)
        IN  /\ text = create_assertion(call.digest, call.signature, keypair)
            /\ KeysSorted(text)
            /\ \A p \in Permutations(DOMAIN items) :
                  json_dumps(Reordered(items, p)) = text
            /\ DOMAIN fields = {items[n][1] : n \in DOMAIN items}
            /\ \A n \in DOMAIN items : fields[items[n][1]] = items[n][2]

\* the assertion for "H1" with the local key's signature over it
C27_Witness ==
    /\ ret.op = "create_assertion"
    /\ call.digest = "H1"
    /\ call.signature = sign_bytes("H1", LocalKey, 1)
    /\ ret.value = << <<"alg", "ES384">>, <<"hash", "H1">>,
                      <<"signature", sign_bytes("H1", LocalKey, 1)>>,
                      <<"signer", LocalFp>> >>

---------------------------------------------------------------------------
(* C28 (fields of the assertion): every assertion that signing emits has the *)
(* fields alg, hash, signature, signer, key_id and key_backend_type; signer  *)
(* is the fingerprint of the signing key and key_backend_type names the      *)
(* provider.                                                                  *)
AssertionFields == {"alg", "hash", "signature", "signer", "key_id", "key_backend_type"}

C28_AssertionHasAllFields ==
    ret.op = "create_assertion" =>
        LET fields == json_loads(ret.value)
        IN  /\ DOMAIN fields = AssertionFields
            /\ fields["signer"] = fingerprint_of(keypair)
            /\ fields["key_id"] = fields["signer"]
            /\ fields["key_backend_type"] \in {"file", "tpm"}

---------------------------------------------------------------------------
(* C29 (artifact store invariant): the artifacts table holds at most one     *)
(* record per content hash and the id of each record is uuid5 of its hash;   *)
(* no step deletes a record or changes its id, kind, uri or hash, and the    *)
(* only change a step makes to a record is to attach an assertion to one     *)
(* that had none.                                                             *)
Rows(arts) == {arts[i] : i \in DOMAIN arts}

C29_OneRecordPerHash ==
    /\ \A i, j \in DOMAIN artifacts :
          artifacts[i].hash = artifacts[j].hash => i = j
    /\ \A i \in DOMAIN artifacts : artifacts[i].id = uuid5(artifacts[i].hash)

C29_RecordKept ==
    \A row \in Rows(artifacts) :
        \E kept \in Rows(artifacts') :
            /\ kept.id = row.id /\ kept.kind = row.kind
            /\ kept.uri = row.uri /\ kept.hash = row.hash
            /\ \/ kept = row
               \/ /\ "c2pa_assertion" \notin DOMAIN row
                  /\ DOMAIN kept = DOMAIN row \cup {"c2pa_assertion"}

C29_ArtifactStore == []C29_OneRecordPerHash /\ [][C29_RecordKept]_vars

\* two records, the one of "H1" with an assertion attached after the capture
\* of "H2"
C29_Witness ==
    /\ Len(artifacts) = 2
    /\ artifacts[1].hash = "H2" /\ "c2pa_assertion" \notin DOMAIN artifacts[1]
    /\ artifacts[2].hash = "H1" /\ "c2pa_assertion" \in DOMAIN artifacts[2]

---------------------------------------------------------------------------
(* C30 (fingerprint stability): while one key pair is on disk and no         *)
(* instance holds another, get_public_key_fingerprint called on any instance *)
(* of the file backend with the id of that key returns that id, also when it *)
(* is the first call on a new instance.                                       *)
C30_FingerprintStable ==
    (/\ ret.op = "get_public_key_fingerprint"
     /\ ret.backend \in Instances
     /\ key_dir.key # NoKey
     /\ InstancesHoldStoredKey
     /\ call.key_id = fingerprint_of(key_dir.key))
        => (ret.ok /\ ret.value.key_id = call.key_id)

---------------------------------------------------------------------------
(* C31 (universal rule): the rule passes iff every named validator holds for *)
(* every target hash, where 'signature' holds iff the hash has a verified    *)
(* sign event and a validator the evaluator has no check for ('ledger', or    *)
(* any other name) never holds.                                              *)

\* universal rules that name a validator check_universal_rule has no branch for
UnimplementedValidatorRules ==
    {[name |-> "u", required_validators |-> <<"notary">>],
     [name |-> "u", required_validators |-> <<"signature", "notary">>]}

ValidatorHolds(validator, h) ==
    validator = "signature" /\ VerifiedSignEvents(events, h) # {}

EveryValidatorHolds(S, rule) ==
    LET required_validators == Get(rule, "required_validators", <<>>)
    IN  \A i \in DOMAIN S : \A v \in DOMAIN required_validators :
            ValidatorHolds(required_validators[v], S[i])

C31_UniversalRule ==
    \A rule \in UniversalRules \cup UnimplementedValidatorRules :
        \A S \in TargetLists :
            check_universal_rule(S, rule, events, keypair) = EveryValidatorHolds(S, rule)

\* the same statement over the rules that name 'signature' and 'ledger' only
UniversalRuleOnImplementedNames ==
    \A rule \in UniversalRules : \A S \in TargetLists :
        check_universal_rule(S, rule, events, keypair) = EveryValidatorHolds(S, rule)

---------------------------------------------------------------------------
(* C32 (ledger never passes vacuously): a universal rule that requires       *)
(* 'ledger' denies every target list, the empty one included, on every       *)
(* ledger.                                                                   *)
C32_LedgerNeverVacuous ==
    \A rule \in UniversalRules : \A S \in TargetLists :
        RequiresLedger(rule) =>
            /\ ~check_universal_rule(S, rule, events, keypair)
            /\ ~can_export(S, [universal_rules |-> <<rule>>], events, keypair)

---------------------------------------------------------------------------
(* C33 (an unusable stored signature is data): on every ledger, those with   *)
(* a sign event whose artifact_signature is no hex included, can_export      *)
(* returns a boolean, the one it returns on the ledger without those events. *)
Decodable(event) ==
    ~(event.action = "sign" /\ fromhex_raises(event.artifact_signature))

\* the ledger without the sign events whose signature is no hex
WithoutMalformed(evs) == SelectSeq(evs, Decodable)

C33_MalformedSignatureIsData ==
    \A S \in TargetLists :
        can_export_outcome(S, policy_file, events, keypair)
            = Outcome(can_export(S, policy_file, WithoutMalformed(events), keypair))

\* what the evaluator does: it raises whenever a rule reads such an event
MalformedSignatureRaises ==
    \A S \in TargetLists :
        (policy_file = NoFile /\ WithoutMalformed(events) # events)
            => can_export_outcome(S, policy_file, events, keypair) = "ValueError"

---------------------------------------------------------------------------
(* C34 (sign_digest on the hardware backend checks key_id): sign_digest      *)
(* returns a signature only when key_id is the fingerprint of the key at the *)
(* persistent handle; with any other key_id it raises the ValueError of an   *)
(* unknown key and returns nothing.                                          *)
C34_TpmSignChecksKeyId ==
    (ret.op = "sign_digest" /\ ret.backend = "tpm" /\ tpm.persistent # NoKey) =>
        /\ ret.ok => call.key_id = fingerprint_of(tpm.persistent)
        /\ call.key_id # fingerprint_of(tpm.persistent) => ~ret.ok
---------------------------------------------------------------------------
(* C35 (admission is monotone in the event history): with the policy, the    *)
(* verification key and the target list fixed, once can_export admits it     *)
(* admits after every further append to the ledger.                          *)
Admits(S) == can_export_outcome(S, policy_file, events, keypair) = "True"

StaysAdmitted == \A S \in TargetLists : Admits(S) => Admits(S)'

C35_AdmissionMonotone == [][StaysAdmitted]_vars

\* a step that appends a sign event whose signature is hex
AppendsDecodable ==
    /\ Len(events') = Len(events) + 1
    /\ Decodable(events'[Len(events')])

\* the same statement over the appends of events whose signature is hex
MonotoneOnDecodableAppends == [][AppendsDecodable => StaysAdmitted]_vars

---------------------------------------------------------------------------
(* C36 (a call that fails on an unknown key changes nothing): on a file      *)
(* backend with no key in memory and none on disk, get_public_key_pem,       *)
(* sign_digest, verify_signature (through get_public_key) and get_algorithm  *)
(* with an unmanaged key_id raise ValueError and leave the key directory,    *)
(* the instance and the number of generated keys as they were.               *)
NoKeyMaterial(i) ==
    /\ key_dir = [key |-> NoKey, pub |-> NoKey]
    /\ instances[i] = FileKeyBackend_init

FailsOnUnknownKey(i) ==
    /\ ret'.backend = i
    /\ ret'.op \in {"get_public_key_pem", "sign_digest", "verify_signature",
                    "get_algorithm"}
    /\ ~ret'.ok
    /\ ret'.value = "ValueError"

C36_KeyStateKept ==
    \A i \in Instances :
        (NoKeyMaterial(i) /\ FailsOnUnknownKey(i))
            => UNCHANGED <<key_dir, instances, generated>>

C36_UnknownKeyLeavesState == [][C36_KeyStateKept]_vars

---------------------------------------------------------------------------
(* C37 (the metadata cache is consistent with the ledger): in every          *)
(* reachable state an artifact record carries an assertion only if the       *)
(* ledger holds a sign event for its hash, so the sign command never returns *)
(* "already signed" for an artifact that has no sign event.                  *)
HasSignEvent(h) ==
    \E i \in DOMAIN events : events[i].action = "sign" /\ events[i].artifact_hash = h

C37_AssertionHasSignEvent ==
    \A i \in DOMAIN artifacts :
        "c2pa_assertion" \in DOMAIN artifacts[i] => HasSignEvent(artifacts[i].hash)

C37_AlreadySignedHasSignEvent ==
    \A h \in Hashes :
        (sign(h) /\ last' = [cmd |-> "sign", exit |-> Already]) => HasSignEvent(h)

C37_CacheConsistent ==
    [](C37_AssertionHasSignEvent) /\ [][C37_AlreadySignedHasSignEvent]_vars

\* the sign command returned "already signed" and the ledger has no sign event
SignSkippedWithoutSignEvent ==
    /\ last = [cmd |-> "sign", exit |-> Already]
    /\ \A i \in DOMAIN events : events[i].action # "sign"

---------------------------------------------------------------------------
(* C38 (the tarball holds admitted artifacts only): the artifact files an    *)
(* export packs are among the hashes can_export admitted, which are the      *)
(* hashes the export event records, also when the artifacts directory holds  *)
(* the file of a capture that did not complete its record.                   *)
Members(list) == {list[x] : x \in DOMAIN list}

C38_ExportEventCoversTarball ==
    \A i \in DOMAIN events :
        events[i].action = "export" =>
            events[i].tarball_hash.sha256.members
                \subseteq Members(events[i].artifacts_exported)

C38_PackedWereAdmitted ==
    (last'.cmd = "export" /\ dist'.tarball # dist.tarball) =>
        /\ can_export(get_all_artifact_hashes(artifacts), policy_file, events, keypair)
        /\ dist'.tarball.members \subseteq Members(get_all_artifact_hashes(artifacts))

C38_TarballSubsetOfAdmitted ==
    [](C38_ExportEventCoversTarball) /\ [][C38_PackedWereAdmitted]_vars

\* the same statement on the working directories in which every capture ran
\* to its end
NoInterruptedCapture ==
    artifact_files \subseteq Members(get_all_artifact_hashes(artifacts))

TarballSubsetAfterCompleteCaptures ==
    [][NoInterruptedCapture => C38_PackedWereAdmitted]_vars

---------------------------------------------------------------------------
(* C39 (every produced export is recorded): once an export command has       *)
(* written the tarball and the checksums file, the ledger holds an export    *)
(* event with that tarball's hash when the command ends, also when SBOM      *)
(* generation fails.                                                         *)
C39_ExportRecorded ==
    (dist.tarball # NoFile /\ dist.checksums # NoFile) =>
        \E i \in DOMAIN events :
            /\ events[i].action = "export"
            /\ events[i].tarball_hash = dist.checksums

---------------------------------------------------------------------------
(* C40 (snapshot consistency under concurrent appends): the decision a       *)
(* can_export call returns while other processes append events is the        *)
(* decision can_export returns on one snapshot of the events table that      *)
(* existed between the call and its return; every event is read whole.       *)

\* the events table when it had n rows
Snapshot(n) == SubSeq(events, 1, n)

\* what can_export yields on the snapshots that existed during the call
SnapshotOutcomes ==
    {can_export_outcome(evaluation.artifact_hashes, policy_file, Snapshot(n), keypair) :
        n \in evaluation.first..evaluation.last}

C40_SnapshotConsistent ==
    evaluation.pc = "done" => evaluation.outcome \in SnapshotOutcomes

\* the same statement for the calls during which every stored signature was hex
SnapshotConsistentOnDecodable ==
    (evaluation.pc = "done" /\ WithoutMalformed(Snapshot(evaluation.last)) = Snapshot(evaluation.last))
        => evaluation.outcome \in SnapshotOutcomes

\* a call that read the events table at two different lengths and admitted
ReadTwoSnapshotsAndAdmitted ==
    /\ evaluation.pc = "done"
    /\ evaluation.outcome = "True"
    /\ evaluation.artifact_hashes # <<>>
    /\ evaluation.first < evaluation.last
    /\ WithoutMalformed(Snapshot(evaluation.last)) = Snapshot(evaluation.last)
    /\ can_export_outcome(evaluation.artifact_hashes, policy_file,
                          Snapshot(evaluation.first), keypair) = "False"

====
